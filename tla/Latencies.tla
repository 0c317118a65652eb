------------------------------ MODULE Latencies ------------------------------
(***************************************************************************)
(* The compact distribution of milliseconds (crates/core/src/latency.rs):  *)
(* power-of-two buckets, the last of them open-ended, with the count, the  *)
(* sum and the extremes.  Buckets count from zero, as in the code; its     *)
(* 32-bit and 64-bit saturation is out of reach of any run and left out.   *)
(*                                                                         *)
(* A definition named X_Y is X with the mistake Y in it.                   *)
(***************************************************************************)
EXTENDS Integers, FiniteSetsExt, Functions

CONSTANT Buckets   \* BUCKETS

ASSUME BucketsAssumption == Buckets \in Nat \ {0}

BucketIndices == 0..(Buckets - 1)

NoSamples == [buckets |-> [i \in BucketIndices |-> 0], count |-> 0, total |-> 0,
              min |-> 0, max |-> 0]

(***************************************************************************)
(* bucket_range, low and high: bucket i holds [2^i - 1, 2^(i+1) - 1).  The *)
(* last has no high; percentile_ms then takes its low for its width.       *)
(***************************************************************************)
PowerOfTwo ==
  LET power[i \in BucketIndices] == IF i = 0 THEN 1 ELSE 2 * power[i - 1] IN power

LowOf(i) == PowerOfTwo[i] - 1
Width(i) == IF i = Buckets - 1 THEN LowOf(i) ELSE PowerOfTwo[i]

BucketOf(ms) == Max({i \in BucketIndices : LowOf(i) <= ms})

Smaller(x, y) == IF x <= y THEN x ELSE y
Larger(x, y) == IF x >= y THEN x ELSE y

(* A map with this entry, new or not. *)
With(map, key, entry) ==
  [k \in DOMAIN map \cup {key} |-> IF k = key THEN entry ELSE map[k]]

Add(d, ms) ==
  [buckets |-> [d.buckets EXCEPT ![BucketOf(ms)] = @ + 1],
   count |-> d.count + 1, total |-> d.total + ms,
   min |-> IF d.count = 0 THEN ms ELSE Smaller(d.min, ms),
   max |-> Larger(d.max, ms)]

Merge(d, other) ==
  IF other.count = 0 THEN d
  ELSE [buckets |-> [i \in BucketIndices |-> d.buckets[i] + other.buckets[i]],
        count |-> d.count + other.count, total |-> d.total + other.total,
        min |-> IF d.count = 0 THEN other.min ELSE Smaller(d.min, other.min),
        max |-> Larger(d.max, other.max)]

(***************************************************************************)
(* percentile_ms of num/den, of a distribution that is not empty: how far  *)
(* into its bucket the target sample lies, as that part of the width.      *)
(***************************************************************************)
Target(d, num, den) == Larger(1, (d.count * num + den - 1) \div den)

UpTo(d, i) == SumFunctionOnSet(d.buckets, 0..i)

Percentile_Unclamped(d, num, den) ==
  LET target == Target(d, num, den)
      i == Min({j \in BucketIndices : UpTo(d, j) >= target})
      position == target - (UpTo(d, i) - d.buckets[i])
  IN LowOf(i) + (Width(i) * position) \div d.buckets[i]
Percentile(d, num, den) ==
  LET target == Target(d, num, den)
      i == Min({j \in BucketIndices : UpTo(d, j) >= target})
      position == target - (UpTo(d, i) - d.buckets[i])
      estimate == LowOf(i) + (Width(i) * position) \div d.buckets[i]
  IN Larger(d.min, Smaller(d.max, estimate))

-----------------------------------------------------------------------------
(***************************************************************************)
(* The same from the samples themselves: a function from sample ids to     *)
(* milliseconds.                                                           *)
(***************************************************************************)
DistributionOf(samples) ==
  LET ids == DOMAIN samples
      values == {samples[s] : s \in ids}
  IN [buckets |-> [i \in BucketIndices |->
                     Cardinality({s \in ids : BucketOf(samples[s]) = i})],
      count |-> Cardinality(ids),
      total |-> SumFunction(samples),
      min |-> IF ids = {} THEN 0 ELSE Min(values),
      max |-> IF ids = {} THEN 0 ELSE Max(values)]

(***************************************************************************)
(* The least sample that at least the target number do not exceed.         *)
(***************************************************************************)
OrderStatistic(samples, target) ==
  Min({x \in {samples[s] : s \in DOMAIN samples} :
         Cardinality({s \in DOMAIN samples : samples[s] <= x}) >= target})

=============================================================================
