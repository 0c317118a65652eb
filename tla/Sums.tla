-------------------------------- MODULE Sums --------------------------------
(***************************************************************************)
(* Lemmas about numbers, and about what the library's SumFunctionOnSet     *)
(* adds up to.  That one is a recursive function over the subsets of a     *)
(* set, which takes their elements in an order nobody knows.               *)
(***************************************************************************)
EXTENDS Integers, FiniteSets, FiniteSetsExt, Functions, FiniteSetTheorems, WellFoundedInduction, TLAPS

-----------------------------------------------------------------------------
(***************************************************************************)
(* Numbers.                                                                *)
(***************************************************************************)
(* Every nonempty set of natural numbers has a least element. *)
LEMMA LeastNat ==
  ASSUME NEW T \in SUBSET Nat, T # {}
  PROVE  \E x \in T : \A y \in T : x <= y
<1>1. PICK x \in T : \A y \in T : ~(<<y, x>> \in OpToRel(<, Nat))
  BY NatLessThanWellFounded, WFMin
<1>2. \A y \in T : ~(y < x)
  BY <1>1 DEF OpToRel
<1> QED BY <1>2

(* A set of numbers up to n has a greatest element. *)
LEMMA MaxNat ==
  ASSUME NEW n \in Nat, NEW T, T \subseteq 0 .. n, T # {}
  PROVE  Max(T) \in T /\ \A y \in T : y <= Max(T)
<1> DEFINE S == {n - y : y \in T}
<1>1. S \in SUBSET Nat /\ S # {}
  OBVIOUS
<1>2. PICK s \in S : \A t \in S : s <= t
  BY <1>1, LeastNat
<1>3. PICK x \in T : s = n - x
  OBVIOUS
<1>4. \A y \in T : x >= y
  <2> TAKE y \in T
  <2>1. s <= n - y
    BY <1>2
  <2>2. x \in 0 .. n /\ y \in 0 .. n
    OBVIOUS
  <2> QED BY <1>3, <2>1, <2>2
<1>5. /\ Max(T) \in T
      /\ \A y \in T : Max(T) >= y
  BY <1>4 DEF Max
<1> SUFFICES ASSUME NEW y \in T PROVE y <= Max(T)
  BY <1>5
<1> QED BY <1>5

(* What holds of 0, and of i + 1 whenever of i, holds of every number up to n. *)
LEMMA CountingUp ==
  ASSUME NEW n \in Nat, NEW T, 0 \in T,
         \A i \in 0 .. n : i \in T /\ i < n => i + 1 \in T
  PROVE  0 .. n \subseteq T
<1> SUFFICES ASSUME ~(0 .. n \subseteq T) PROVE FALSE
  OBVIOUS
<1> DEFINE rest == {i \in 0 .. n : i \notin T}
<1>1. rest \in SUBSET Nat /\ rest # {}
  OBVIOUS
<1>2. PICK x \in rest : \A y \in rest : x <= y
  BY <1>1, LeastNat
<1>3. x # 0 /\ x \in 1 .. n
  OBVIOUS
<1>4. x - 1 \in 0 .. n /\ x - 1 \notin rest
  BY <1>2, <1>3
<1> QED BY <1>3, <1>4

(* What holds of n, and of i - 1 whenever of i, holds of every number down to 0. *)
LEMMA CountingDown ==
  ASSUME NEW n \in Nat, NEW T, n \in T,
         \A i \in 1 .. n : i \in T => i - 1 \in T
  PROVE  0 .. n \subseteq T
<1> DEFINE S == {i \in 0 .. n : n - i \in T}
<1>1. 0 \in S
  OBVIOUS
<1>2. \A i \in 0 .. n : i \in S /\ i < n => i + 1 \in S
  <2> TAKE i \in 0 .. n
  <2> HAVE i \in S /\ i < n
  <2>1. n - i \in 1 .. n /\ n - i \in T
    OBVIOUS
  <2>2. (n - i) - 1 \in T
    BY <2>1
  <2>3. (n - i) - 1 = n - (i + 1) /\ i + 1 \in 0 .. n
    OBVIOUS
  <2> QED BY <2>2, <2>3
<1>3. 0 .. n \subseteq S
  <2> HIDE DEF S
  <2> QED BY <1>1, <1>2, CountingUp
<1> SUFFICES ASSUME NEW k \in 0 .. n PROVE k \in T
  OBVIOUS
<1>4. n - k \in 0 .. n /\ n - (n - k) = k
  OBVIOUS
<1> QED BY <1>3, <1>4

(* What holds of a set whenever of all smaller ones holds of all subsets of a
   finite set. *)
LEMMA SmallerFirst ==
  ASSUME NEW S, IsFiniteSet(S), NEW T,
         \A s \in SUBSET S :
           (\A u \in SUBSET S : Cardinality(u) < Cardinality(s) => u \in T) => s \in T
  PROVE  SUBSET S \subseteq T
<1> SUFFICES ASSUME NEW bad \in SUBSET S, bad \notin T PROVE FALSE
  OBVIOUS
<1> DEFINE sizes == {Cardinality(s) : s \in {s \in SUBSET S : s \notin T}}
<1>1. \A s \in SUBSET S : Cardinality(s) \in Nat
  BY FS_Subset, FS_CardinalityType
<1>2. sizes \in SUBSET Nat /\ sizes # {}
  BY <1>1
<1>3. PICK k \in sizes : \A y \in sizes : k <= y
  BY <1>2, LeastNat
<1>4. PICK s \in SUBSET S : s \notin T /\ Cardinality(s) = k
  OBVIOUS
<1>5. \A u \in SUBSET S : Cardinality(u) < Cardinality(s) => u \in T
  <2> TAKE u \in SUBSET S
  <2> HAVE Cardinality(u) < Cardinality(s)
  <2> SUFFICES ASSUME u \notin T PROVE FALSE
    OBVIOUS
  <2>1. Cardinality(u) \in sizes
    OBVIOUS
  <2>2. k <= Cardinality(u)
    BY <1>3, <2>1
  <2>3. k \in Nat /\ Cardinality(u) \in Nat
    BY <1>1, <1>2
  <2> HIDE DEF sizes
  <2> QED BY <1>4, <2>2, <2>3
<1> QED BY <1>4, <1>5

-----------------------------------------------------------------------------
(***************************************************************************)
(* Sums.                                                                   *)
(***************************************************************************)
AnyOf(s) == CHOOSE x \in s : TRUE

(* The sums of f over the members of D, each taken from that of a smaller set. *)
Adds(f, D, g) == g = [s \in D |-> IF s = {} THEN 0 ELSE f[AnyOf(s)] + g[s \ {AnyOf(s)}]]

AddsUp(f, S, g) == Adds(f, SUBSET S, g)

LEMMA SumIsChosen ==
  ASSUME NEW f, NEW S
  PROVE  SumFunctionOnSet(f, S) = (CHOOSE g : AddsUp(f, S, g))[S]
BY DEF SumFunctionOnSet, FoldFunctionOnSet, MapThenFoldSet, Adds, AddsUp, AnyOf

(* Taking an element out of a finite set. *)
LEMMA OneLess ==
  ASSUME NEW S, IsFiniteSet(S), NEW s \in SUBSET S, NEW x \in s
  PROVE  /\ s \ {x} \in SUBSET S /\ s # {}
         /\ Cardinality(s) \in Nat /\ Cardinality(s) <= Cardinality(S)
         /\ Cardinality(s \ {x}) \in Nat
         /\ Cardinality(s \ {x}) = Cardinality(s) - 1
<1>1. IsFiniteSet(s) /\ Cardinality(s) <= Cardinality(S)
  BY FS_Subset
<1>2. Cardinality(s) \in Nat
  BY <1>1, FS_CardinalityType
<1>3. IsFiniteSet(s \ {x}) /\ Cardinality(s \ {x}) = Cardinality(s) - 1
  BY <1>1, FS_RemoveElement
<1>4. Cardinality(s \ {x}) \in Nat
  BY <1>3, FS_CardinalityType
<1> QED BY <1>1, <1>2, <1>3, <1>4

LEMMA AnyOfIn == ASSUME NEW s, s # {} PROVE AnyOf(s) \in s
BY DEF AnyOf

(* The recursive function exists. *)
LEMMA SumsExist ==
  ASSUME NEW f, NEW S, IsFiniteSet(S)
  PROVE  \E g : AddsUp(f, S, g)
<1> DEFINE n == Cardinality(S)
           Level(k) == {s \in SUBSET S : Cardinality(s) <= k}
           T == {k \in 0 .. n : \E g : Adds(f, Level(k), g)}
<1>1. n \in Nat
  BY FS_CardinalityType
<1>2. 0 \in T
  <2>1. \A s \in Level(0) : s = {}
    <3> SUFFICES ASSUME NEW s \in Level(0), s # {} PROVE FALSE
      OBVIOUS
    <3>1. PICK x \in s : TRUE
      OBVIOUS
    <3>2. Cardinality(s) <= 0 /\ s \in SUBSET S
      OBVIOUS
    <3>3. /\ Cardinality(s \ {x}) \in Nat /\ Cardinality(s) \in Nat
          /\ Cardinality(s \ {x}) = Cardinality(s) - 1
      BY <3>1, <3>2, OneLess
    <3> QED BY <3>2, <3>3
  <2>2. Adds(f, Level(0), [s \in Level(0) |-> 0])
    BY <2>1 DEF Adds
  <2>3. 0 \in 0 .. n
    BY <1>1
  <2> QED BY <2>2, <2>3, Zenon
<1>3. \A k \in 0 .. n : k \in T /\ k < n => k + 1 \in T
  <2> SUFFICES ASSUME NEW k \in 0 .. n, k \in T, k < n PROVE k + 1 \in T
    OBVIOUS
  <2>1. PICK g : Adds(f, Level(k), g)
    OBVIOUS
  <2> DEFINE h == [s \in Level(k + 1) |-> IF s = {} THEN 0 ELSE f[AnyOf(s)] + g[s \ {AnyOf(s)}]]
  <2>2. \A s \in Level(k + 1) : s # {} => s \ {AnyOf(s)} \in Level(k) /\ s \ {AnyOf(s)} \in Level(k + 1)
    <3> SUFFICES ASSUME NEW s \in Level(k + 1), s # {}
                 PROVE  s \ {AnyOf(s)} \in Level(k) /\ s \ {AnyOf(s)} \in Level(k + 1)
      OBVIOUS
    <3>1. AnyOf(s) \in s
      BY AnyOfIn
    <3>2. s \in SUBSET S /\ Cardinality(s) <= k + 1
      OBVIOUS
    <3> DEFINE u == s \ {AnyOf(s)}
    <3>3. u \in SUBSET S /\ Cardinality(s) \in Nat /\ Cardinality(u) \in Nat
          /\ Cardinality(u) = Cardinality(s) - 1
      BY <3>1, <3>2, OneLess
    <3> HIDE DEF u
    <3>4. Cardinality(u) <= k /\ Cardinality(u) <= k + 1
      BY <3>2, <3>3
    <3>5. u \in Level(k) /\ u \in Level(k + 1)
      BY <3>3, <3>4
    <3> QED BY <3>5 DEF u
  <2>3. \A u \in Level(k) : u \in Level(k + 1)
    <3> TAKE u \in Level(k)
    <3>1. IsFiniteSet(u)
      BY FS_Subset
    <3>2. Cardinality(u) \in Nat /\ Cardinality(u) <= k
      BY <3>1, FS_CardinalityType
    <3>3. Cardinality(u) <= k + 1
      BY <3>2
    <3> QED BY <3>3
  <2>4. \A u \in Level(k) : h[u] = g[u]
    <3> TAKE u \in Level(k)
    <3>1. g[u] = IF u = {} THEN 0 ELSE f[AnyOf(u)] + g[u \ {AnyOf(u)}]
      <4> HIDE DEF Level
      <4> QED BY <2>1 DEF Adds
    <3>2. h[u] = IF u = {} THEN 0 ELSE f[AnyOf(u)] + g[u \ {AnyOf(u)}]
      <4> HIDE DEF Level
      <4> QED BY <2>3
    <3> QED BY <3>1, <3>2
  <2> HIDE DEF Level
  <2>5. \A s \in Level(k + 1) : h[s] = IF s = {} THEN 0 ELSE f[AnyOf(s)] + h[s \ {AnyOf(s)}]
    <3> TAKE s \in Level(k + 1)
    <3>1. h[s] = IF s = {} THEN 0 ELSE f[AnyOf(s)] + g[s \ {AnyOf(s)}]
      OBVIOUS
    <3> HIDE DEF h
    <3> QED BY <2>2, <2>4, <3>1
  <2>6. h = [s \in Level(k + 1) |-> h[s]]
    OBVIOUS
  <2> HIDE DEF h
  <2>7. Adds(f, Level(k + 1), h)
    BY <2>5, <2>6 DEF Adds
  <2>8. k + 1 \in 0 .. n
    BY <1>1
  <2> QED BY <2>7, <2>8, Zenon
<1>4. n \in T
  <2> HIDE DEF T, n
  <2>1. 0 .. n \subseteq T
    BY <1>1, <1>2, <1>3, CountingUp
  <2> QED BY <1>1, <2>1
<1>5. Level(n) = SUBSET S
  BY FS_Subset
<1> QED BY <1>4, <1>5 DEF AddsUp

(* ... and there is one only, whatever the sets it is defined for. *)
LEMMA SumsAgree ==
  ASSUME NEW f, NEW S, IsFiniteSet(S), NEW U \in SUBSET S,
         NEW g, AddsUp(f, S, g), NEW h, AddsUp(f, U, h)
  PROVE  g[U] = h[U]
<1> DEFINE T == {s \in SUBSET S : s \in SUBSET U => g[s] = h[s]}
<1>1. \A s \in SUBSET S :
        (\A u \in SUBSET S : Cardinality(u) < Cardinality(s) => u \in T) => s \in T
  <2> SUFFICES ASSUME NEW s \in SUBSET S, s \in SUBSET U,
                      \A u \in SUBSET S : Cardinality(u) < Cardinality(s) => u \in T
               PROVE  g[s] = h[s]
    OBVIOUS
  <2>1. /\ g[s] = IF s = {} THEN 0 ELSE f[AnyOf(s)] + g[s \ {AnyOf(s)}]
        /\ h[s] = IF s = {} THEN 0 ELSE f[AnyOf(s)] + h[s \ {AnyOf(s)}]
    BY DEF Adds, AddsUp
  <2>2. CASE s = {}
    BY <2>1, <2>2
  <2>3. CASE s # {}
    <3>1. AnyOf(s) \in s
      BY <2>3, AnyOfIn
    <3>2. s \ {AnyOf(s)} \in SUBSET S /\ Cardinality(s \ {AnyOf(s)}) < Cardinality(s)
      <4>1. /\ s \ {AnyOf(s)} \in SUBSET S
            /\ Cardinality(s) \in Nat /\ Cardinality(s \ {AnyOf(s)}) = Cardinality(s) - 1
        BY <3>1, OneLess
      <4> QED BY <4>1
    <3>3. s \ {AnyOf(s)} \in T
      BY <3>2
    <3>4. g[s \ {AnyOf(s)}] = h[s \ {AnyOf(s)}]
      BY <3>3
    <3> QED BY <2>1, <2>3, <3>4
  <2> QED BY <2>2, <2>3
<1>2. SUBSET S \subseteq T
  <2> HIDE DEF T
  <2> QED BY <1>1, SmallerFirst
<1>3. U \in T /\ U \in SUBSET U
  BY <1>2
<1> QED BY <1>3

(* The sum, a step at a time. *)
LEMMA SumStep ==
  ASSUME NEW f, NEW S, IsFiniteSet(S)
  PROVE  SumFunctionOnSet(f, S) =
           IF S = {} THEN 0 ELSE f[AnyOf(S)] + SumFunctionOnSet(f, S \ {AnyOf(S)})
<1>1. PICK g : AddsUp(f, S, g) /\ SumFunctionOnSet(f, S) = g[S]
  BY SumsExist, SumIsChosen
<1>2. g[S] = IF S = {} THEN 0 ELSE f[AnyOf(S)] + g[S \ {AnyOf(S)}]
  BY <1>1 DEF Adds, AddsUp
<1>3. CASE S = {}
  BY <1>1, <1>2, <1>3
<1>4. CASE S # {}
  <2> DEFINE U == S \ {AnyOf(S)}
  <2>1. U \in SUBSET S /\ IsFiniteSet(U)
    BY FS_Subset
  <2> HIDE DEF U
  <2>2. PICK h : AddsUp(f, U, h) /\ SumFunctionOnSet(f, U) = h[U]
    BY <2>1, SumsExist, SumIsChosen
  <2>3. g[U] = h[U]
    BY <1>1, <2>1, <2>2, SumsAgree
  <2> QED BY <1>1, <1>2, <1>4, <2>2, <2>3 DEF U
<1> QED BY <1>3, <1>4

(* An empty sum is zero, and a sum of numbers a number. *)
LEMMA SumEmpty == ASSUME NEW f PROVE SumFunctionOnSet(f, {}) = 0
BY SumStep, FS_EmptySet

LEMMA SumType ==
  ASSUME NEW f, NEW S, IsFiniteSet(S), \A x \in S : f[x] \in Nat
  PROVE  SumFunctionOnSet(f, S) \in Nat
<1> DEFINE T == {s \in SUBSET S : SumFunctionOnSet(f, s) \in Nat}
<1>1. \A s \in SUBSET S :
        (\A u \in SUBSET S : Cardinality(u) < Cardinality(s) => u \in T) => s \in T
  <2> SUFFICES ASSUME NEW s \in SUBSET S,
                      \A u \in SUBSET S : Cardinality(u) < Cardinality(s) => u \in T
               PROVE  SumFunctionOnSet(f, s) \in Nat
    OBVIOUS
  <2>1. IsFiniteSet(s)
    BY FS_Subset
  <2>2. CASE s = {}
    BY <2>2, SumEmpty
  <2>3. CASE s # {}
    <3>1. AnyOf(s) \in s
      BY <2>3, AnyOfIn
    <3>2. s \ {AnyOf(s)} \in SUBSET S /\ Cardinality(s \ {AnyOf(s)}) < Cardinality(s)
      <4>1. /\ s \ {AnyOf(s)} \in SUBSET S
            /\ Cardinality(s) \in Nat /\ Cardinality(s \ {AnyOf(s)}) = Cardinality(s) - 1
        BY <3>1, OneLess
      <4> QED BY <4>1
    <3>3. s \ {AnyOf(s)} \in T
      BY <3>2
    <3>4. SumFunctionOnSet(f, s) = f[AnyOf(s)] + SumFunctionOnSet(f, s \ {AnyOf(s)})
      BY <2>1, <2>3, SumStep
    <3>5. f[AnyOf(s)] \in Nat
      BY <3>1
    <3> QED BY <3>3, <3>4, <3>5
  <2> QED BY <2>2, <2>3
<1>2. SUBSET S \subseteq T
  <2> HIDE DEF T
  <2> QED BY <1>1, SmallerFirst
<1> QED BY <1>2

(* Any element may be added last. *)
LEMMA SumRemove ==
  ASSUME NEW f, NEW S, IsFiniteSet(S), \A x \in S : f[x] \in Nat, NEW x \in S
  PROVE  SumFunctionOnSet(f, S) = f[x] + SumFunctionOnSet(f, S \ {x})
<1> DEFINE Sum(s) == SumFunctionOnSet(f, s)
           T == {s \in SUBSET S : \A y \in s : Sum(s) = f[y] + Sum(s \ {y})}
<1>1. \A s \in SUBSET S : IsFiniteSet(s) /\ Sum(s) \in Nat
  <2> TAKE s \in SUBSET S
  <2>1. IsFiniteSet(s)
    BY FS_Subset
  <2> QED BY <2>1, SumType
<1>2. \A s \in SUBSET S :
        (\A u \in SUBSET S : Cardinality(u) < Cardinality(s) => u \in T) => s \in T
  <2> SUFFICES ASSUME NEW s \in SUBSET S, NEW y \in s,
                      \A u \in SUBSET S : Cardinality(u) < Cardinality(s) => u \in T
               PROVE  Sum(s) = f[y] + Sum(s \ {y})
    OBVIOUS
  <2> DEFINE c == AnyOf(s)
  <2>1. c \in s
    BY AnyOfIn
  <2>2. Sum(s) = f[c] + Sum(s \ {c})
    BY <1>1, <2>1, SumStep
  <2> HIDE DEF c
  <2>3. CASE c = y
    BY <2>2, <2>3
  <2>4. CASE c # y
    <3>1. \A z \in s : s \ {z} \in T
      <4> TAKE z \in s
      <4>1. /\ s \ {z} \in SUBSET S
            /\ Cardinality(s) \in Nat /\ Cardinality(s \ {z}) = Cardinality(s) - 1
        BY OneLess
      <4>2. Cardinality(s \ {z}) < Cardinality(s)
        BY <4>1
      <4> QED BY <4>1, <4>2
    <3>2. Sum(s \ {c}) = f[y] + Sum((s \ {c}) \ {y})
      BY <2>1, <2>4, <3>1
    <3>3. Sum(s \ {y}) = f[c] + Sum((s \ {y}) \ {c})
      BY <2>1, <2>4, <3>1
    <3>4. (s \ {c}) \ {y} = (s \ {y}) \ {c}
      OBVIOUS
    <3> DEFINE rest == Sum((s \ {y}) \ {c})
    <3>5. f[c] \in Nat /\ f[y] \in Nat /\ rest \in Nat
      BY <1>1, <2>1
    <3>6. Sum(s) = f[c] + (f[y] + rest) /\ Sum(s \ {y}) = f[c] + rest
      BY <2>2, <3>2, <3>3, <3>4
    <3> HIDE DEF rest, Sum
    <3> QED BY <3>5, <3>6
  <2> QED BY <2>3, <2>4
<1>3. SUBSET S \subseteq T
  <2> HIDE DEF T
  <2> QED BY <1>2, SmallerFirst
<1> QED BY <1>3

(* One sum after another, and one more. *)
LEMMA SumAdd ==
  ASSUME NEW f, NEW S, IsFiniteSet(S), NEW x, x \notin S,
         \A y \in S \cup {x} : f[y] \in Nat
  PROVE  SumFunctionOnSet(f, S \cup {x}) = f[x] + SumFunctionOnSet(f, S)
<1>1. IsFiniteSet(S \cup {x}) /\ (S \cup {x}) \ {x} = S
  BY FS_AddElement
<1> QED BY <1>1, SumRemove

(* Sums of the same numbers are the same. *)
LEMMA SumSame ==
  ASSUME NEW f, NEW g, NEW S, IsFiniteSet(S), \A x \in S : f[x] = g[x]
  PROVE  SumFunctionOnSet(f, S) = SumFunctionOnSet(g, S)
<1> DEFINE T == {s \in SUBSET S : SumFunctionOnSet(f, s) = SumFunctionOnSet(g, s)}
<1>1. \A s \in SUBSET S :
        (\A u \in SUBSET S : Cardinality(u) < Cardinality(s) => u \in T) => s \in T
  <2> SUFFICES ASSUME NEW s \in SUBSET S,
                      \A u \in SUBSET S : Cardinality(u) < Cardinality(s) => u \in T
               PROVE  SumFunctionOnSet(f, s) = SumFunctionOnSet(g, s)
    OBVIOUS
  <2>1. IsFiniteSet(s)
    BY FS_Subset
  <2>2. CASE s = {}
    BY <2>2, SumEmpty
  <2>3. CASE s # {}
    <3>1. AnyOf(s) \in s
      BY <2>3, AnyOfIn
    <3>2. s \ {AnyOf(s)} \in SUBSET S /\ Cardinality(s \ {AnyOf(s)}) < Cardinality(s)
      <4>1. /\ s \ {AnyOf(s)} \in SUBSET S
            /\ Cardinality(s) \in Nat /\ Cardinality(s \ {AnyOf(s)}) = Cardinality(s) - 1
        BY <3>1, OneLess
      <4> QED BY <4>1
    <3>3. s \ {AnyOf(s)} \in T
      BY <3>2
    <3>4. /\ SumFunctionOnSet(f, s) = f[AnyOf(s)] + SumFunctionOnSet(f, s \ {AnyOf(s)})
          /\ SumFunctionOnSet(g, s) = g[AnyOf(s)] + SumFunctionOnSet(g, s \ {AnyOf(s)})
      BY <2>1, <2>3, SumStep
    <3> QED BY <3>1, <3>3, <3>4
  <2> QED BY <2>2, <2>3
<1>2. SUBSET S \subseteq T
  <2> HIDE DEF T
  <2> QED BY <1>1, SmallerFirst
<1>3. S \in T
  BY <1>2
<1> QED BY <1>3

(* A sum over two sets that share nothing. *)
LEMMA SumUnion ==
  ASSUME NEW f, NEW S, IsFiniteSet(S), NEW U, IsFiniteSet(U), S \cap U = {},
         \A x \in S \cup U : f[x] \in Nat
  PROVE  SumFunctionOnSet(f, S \cup U) = SumFunctionOnSet(f, S) + SumFunctionOnSet(f, U)
<1> DEFINE Sum(s) == SumFunctionOnSet(f, s)
           T == {u \in SUBSET U : Sum(S \cup u) = Sum(S) + Sum(u)}
<1>1. \A u \in SUBSET U : IsFiniteSet(u) /\ IsFiniteSet(S \cup u) /\ Sum(u) \in Nat
  <2> TAKE u \in SUBSET U
  <2>1. IsFiniteSet(u)
    BY FS_Subset
  <2>2. IsFiniteSet(S \cup u)
    BY <2>1, FS_Union
  <2> QED BY <2>1, <2>2, SumType
<1>2. Sum(S) \in Nat
  BY SumType
<1>3. \A u \in SUBSET U :
        (\A v \in SUBSET U : Cardinality(v) < Cardinality(u) => v \in T) => u \in T
  <2> SUFFICES ASSUME NEW u \in SUBSET U,
                      \A v \in SUBSET U : Cardinality(v) < Cardinality(u) => v \in T
               PROVE  Sum(S \cup u) = Sum(S) + Sum(u)
    OBVIOUS
  <2>1. CASE u = {}
    <3>1. S \cup u = S /\ Sum(u) = 0
      BY <2>1, SumEmpty
    <3> QED BY <1>2, <3>1
  <2>2. CASE u # {}
    <3>1. PICK x \in u : TRUE
      BY <2>2
    <3> DEFINE v == u \ {x}
    <3>2. /\ v \in SUBSET U
          /\ Cardinality(u) \in Nat /\ Cardinality(v) = Cardinality(u) - 1
      BY <3>1, OneLess
    <3>3. Cardinality(v) < Cardinality(u)
      BY <3>2
    <3>4. Sum(S \cup v) = Sum(S) + Sum(v)
      BY <3>2, <3>3
    <3>5. Sum(u) = f[x] + Sum(v)
      <4>1. IsFiniteSet(u) /\ \A y \in u : f[y] \in Nat
        BY <1>1
      <4> QED BY <3>1, <4>1, SumRemove
    <3>6. (S \cup u) \ {x} = S \cup v /\ x \in S \cup u
      BY <3>1
    <3>7. Sum(S \cup u) = f[x] + Sum(S \cup v)
      <4> DEFINE both == S \cup u
      <4>1. IsFiniteSet(both) /\ x \in both /\ \A y \in both : f[y] \in Nat
        BY <1>1, <3>6
      <4> HIDE DEF both
      <4>2. Sum(both) = f[x] + Sum(both \ {x})
        BY <4>1, SumRemove
      <4> USE DEF both
      <4> QED BY <3>6, <4>2
    <3>8. f[x] \in Nat /\ Sum(v) \in Nat
      BY <1>1, <3>1, <3>2
    <3> HIDE DEF Sum
    <3> QED BY <1>2, <3>4, <3>5, <3>7, <3>8
  <2> QED BY <2>1, <2>2
<1>4. SUBSET U \subseteq T
  <2> HIDE DEF T
  <2> QED BY <1>3, SmallerFirst
<1>5. U \in T
  BY <1>4
<1> QED BY <1>5

(* A sum of zeroes. *)
LEMMA SumZero ==
  ASSUME NEW f, NEW S, IsFiniteSet(S), \A x \in S : f[x] = 0
  PROVE  SumFunctionOnSet(f, S) = 0
<1> DEFINE T == {s \in SUBSET S : SumFunctionOnSet(f, s) = 0}
<1>1. \A s \in SUBSET S :
        (\A u \in SUBSET S : Cardinality(u) < Cardinality(s) => u \in T) => s \in T
  <2> SUFFICES ASSUME NEW s \in SUBSET S,
                      \A u \in SUBSET S : Cardinality(u) < Cardinality(s) => u \in T
               PROVE  SumFunctionOnSet(f, s) = 0
    OBVIOUS
  <2>1. CASE s = {}
    BY <2>1, SumEmpty
  <2>2. CASE s # {}
    <3>1. PICK x \in s : TRUE
      BY <2>2
    <3> DEFINE u == s \ {x}
    <3>2. /\ u \in SUBSET S
          /\ Cardinality(s) \in Nat /\ Cardinality(u) = Cardinality(s) - 1
      BY <3>1, OneLess
    <3>3. Cardinality(u) < Cardinality(s)
      BY <3>2
    <3>4. SumFunctionOnSet(f, u) = 0
      BY <3>2, <3>3
    <3>5. IsFiniteSet(s)
      BY FS_Subset
    <3>6. SumFunctionOnSet(f, s) = f[x] + SumFunctionOnSet(f, u)
      BY <3>1, <3>5, SumRemove
    <3> QED BY <3>1, <3>4, <3>6
  <2> QED BY <2>1, <2>2
<1>2. SUBSET S \subseteq T
  <2> HIDE DEF T
  <2> QED BY <1>1, SmallerFirst
<1>3. S \in T
  BY <1>2
<1> QED BY <1>3

(* Sets that differ in zeroes only have the same sum. *)
LEMMA SumSupport ==
  ASSUME NEW f, NEW S, IsFiniteSet(S), NEW U, IsFiniteSet(U),
         \A x \in S \cup U : f[x] \in Nat,
         \A x \in (S \ U) \cup (U \ S) : f[x] = 0
  PROVE  SumFunctionOnSet(f, S) = SumFunctionOnSet(f, U)
<1> DEFINE both == S \cap U
<1>1. IsFiniteSet(both) /\ IsFiniteSet(S \ U) /\ IsFiniteSet(U \ S)
  BY FS_Subset
<1>2. S = both \cup (S \ U) /\ both \cap (S \ U) = {}
      /\ U = both \cup (U \ S) /\ both \cap (U \ S) = {}
  OBVIOUS
<1>3. SumFunctionOnSet(f, both) \in Nat
  BY <1>1, SumType
<1>4. SumFunctionOnSet(f, S \ U) = 0 /\ SumFunctionOnSet(f, U \ S) = 0
  BY <1>1, SumZero
<1>5. SumFunctionOnSet(f, both \cup (S \ U)) = SumFunctionOnSet(f, both) + SumFunctionOnSet(f, S \ U)
  BY <1>1, <1>2, SumUnion
<1>6. SumFunctionOnSet(f, both \cup (U \ S)) = SumFunctionOnSet(f, both) + SumFunctionOnSet(f, U \ S)
  BY <1>1, <1>2, SumUnion
<1> HIDE DEF both
<1> QED BY <1>2, <1>3, <1>4, <1>5, <1>6

(* One more of x. *)
LEMMA SumBump ==
  ASSUME NEW f, NEW g, NEW S, IsFiniteSet(S), \A y \in S : f[y] \in Nat,
         NEW x, x \in S => g[x] = f[x] + 1, \A y \in S : y # x => g[y] = f[y]
  PROVE  SumFunctionOnSet(g, S) = SumFunctionOnSet(f, S) + (IF x \in S THEN 1 ELSE 0)
<1>1. \A y \in S : g[y] \in Nat
  OBVIOUS
<1>2. SumFunctionOnSet(f, S) \in Nat
  BY SumType
<1>3. CASE x \notin S
  <2>1. SumFunctionOnSet(g, S) = SumFunctionOnSet(f, S)
    BY <1>3, SumSame
  <2> QED BY <1>2, <1>3, <2>1
<1>4. CASE x \in S
  <2> DEFINE U == S \ {x}
  <2>1. IsFiniteSet(U)
    BY FS_Subset
  <2>2. SumFunctionOnSet(f, S) = f[x] + SumFunctionOnSet(f, U)
    BY <1>4, SumRemove
  <2>3. SumFunctionOnSet(g, S) = g[x] + SumFunctionOnSet(g, U)
    BY <1>1, <1>4, SumRemove
  <2>4. SumFunctionOnSet(g, U) = SumFunctionOnSet(f, U)
    BY <2>1, SumSame
  <2>5. SumFunctionOnSet(f, U) \in Nat /\ f[x] \in Nat /\ g[x] = f[x] + 1
    BY <1>4, <2>1, SumType
  <2> HIDE DEF U
  <2> QED BY <1>4, <2>2, <2>3, <2>4, <2>5
<1> QED BY <1>3, <1>4

-----------------------------------------------------------------------------
(* Whatever a finite set is sorted by, what is sorted is all of it. *)
Sorts(K, a, N, c) ==
  /\ IsFiniteSet(K) /\ IsFiniteSet(N)
  /\ \A p \in K : a[p] \in N
  /\ \A x \in N : c[x] = Cardinality({p \in K : a[p] = x})

LEMMA CountedByValue ==
  ASSUME NEW K, NEW a, NEW N, NEW c, Sorts(K, a, N, c)
  PROVE  SumFunctionOnSet(c, N) = Cardinality(K)
<1> USE DEF Sorts
<1> DEFINE Sorted(s) == {p \in K : a[p] \in s}
           T == {s \in SUBSET N : SumFunctionOnSet(c, s) = Cardinality(Sorted(s))}
<1>1. \A s \in SUBSET N :
        (\A u \in SUBSET N : Cardinality(u) < Cardinality(s) => u \in T) => s \in T
  <2> SUFFICES ASSUME NEW s \in SUBSET N,
                      \A u \in SUBSET N : Cardinality(u) < Cardinality(s) => u \in T
               PROVE  SumFunctionOnSet(c, s) = Cardinality(Sorted(s))
    OBVIOUS
  <2>1. IsFiniteSet(s)
    BY FS_Subset
  <2>2. CASE s = {}
    <3>1. Sorted(s) = {}
      BY <2>2
    <3> QED BY <2>2, <3>1, SumEmpty, FS_EmptySet
  <2>3. CASE s # {}
    <3> DEFINE x == AnyOf(s)
               u == s \ {x}
               here == {p \in K : a[p] = x}
    <3>1. x \in s
      BY <2>3, AnyOfIn
    <3>2. /\ u \in SUBSET N /\ Cardinality(s) \in Nat /\ Cardinality(u) \in Nat
          /\ Cardinality(u) = Cardinality(s) - 1
      BY <3>1, OneLess
    <3>3. SumFunctionOnSet(c, s) = c[x] + SumFunctionOnSet(c, u)
      BY <2>1, <2>3, SumStep
    <3>4. Sorted(s) = here \cup Sorted(u) /\ here \cap Sorted(u) = {}
      BY <3>1
    <3>5. IsFiniteSet(here) /\ IsFiniteSet(Sorted(u))
      BY FS_Subset
    <3>6. c[x] = Cardinality(here)
      BY <3>1
    <3>7. u \in T
      BY <3>2
    <3>8. SumFunctionOnSet(c, u) = Cardinality(Sorted(u))
      BY <3>7
    <3> HIDE DEF Sorted, here, u, T, x
    <3>9. Cardinality(here \cup Sorted(u))
            = Cardinality(here) + Cardinality(Sorted(u)) - Cardinality(here \cap Sorted(u))
      BY <3>5, FS_Union
    <3>10. Cardinality(here) \in Nat /\ Cardinality(Sorted(u)) \in Nat
      BY <3>5, FS_CardinalityType
    <3>11. Cardinality(here \cap Sorted(u)) = 0
      BY <3>4, FS_EmptySet
    <3> QED BY <3>3, <3>4, <3>6, <3>8, <3>9, <3>10, <3>11
  <2> QED BY <2>2, <2>3
<1>2. N \in T
  <2> HIDE DEF T
  <2> QED BY <1>1, SmallerFirst
<1>3. Sorted(N) = K
  OBVIOUS
<1> QED BY <1>2, <1>3

(* A finite set's image is finite. *)
LEMMA ImageIsFinite == ASSUME NEW S, IsFiniteSet(S), NEW f PROVE IsFiniteSet({f[x] : x \in S})
<1> DEFINE T == {f[x] : x \in S}
           onto == [x \in S |-> f[x]]
<1>1. onto \in Surjection(S, T)
  BY DEF Surjection
<1> QED BY <1>1, FS_Surjection

(***************************************************************************)
(* Sums of sums: of a set in disjoint parts, the sum of the parts' sums is *)
(* that of the whole.                                                      *)
(***************************************************************************)
Parts(X, f, A, c) ==
  /\ IsFiniteSet(X)
  /\ \A x \in X : IsFiniteSet(A[x]) /\ \A e \in A[x] : f[e] \in Nat
  /\ \A x, y \in X : x # y => A[x] \cap A[y] = {}
  /\ \A x \in X : c[x] = SumFunctionOnSet(f, A[x])

Together(A, s) == UNION {A[x] : x \in s}

LEMMA SumOfParts ==
  ASSUME NEW X, NEW f, NEW A, NEW c, Parts(X, f, A, c)
  PROVE  /\ SumFunctionOnSet(c, X) = SumFunctionOnSet(f, Together(A, X))
         /\ IsFiniteSet(Together(A, X))
<1> USE DEF Parts
<1> DEFINE T == {s \in SUBSET X : /\ SumFunctionOnSet(c, s) = SumFunctionOnSet(f, Together(A, s))
                                 /\ IsFiniteSet(Together(A, s))}
<1>1. \A s \in SUBSET X :
        (\A u \in SUBSET X : Cardinality(u) < Cardinality(s) => u \in T) => s \in T
  <2> SUFFICES ASSUME NEW s \in SUBSET X,
                      \A u \in SUBSET X : Cardinality(u) < Cardinality(s) => u \in T
               PROVE  s \in T
    OBVIOUS
  <2>1. IsFiniteSet(s)
    BY FS_Subset
  <2>2. CASE s = {}
    <3>1. Together(A, s) = {}
      BY <2>2 DEF Together
    <3> QED BY <2>2, <3>1, SumEmpty, FS_EmptySet
  <2>3. CASE s # {}
    <3> DEFINE x == AnyOf(s)
               u == s \ {x}
               rest == Together(A, u)
               part == A[x]
    <3>1. x \in s
      BY <2>3, AnyOfIn
    <3>2. u \in SUBSET X /\ Cardinality(s) \in Nat /\ Cardinality(u) \in Nat
          /\ Cardinality(u) = Cardinality(s) - 1
      BY <2>1, <3>1, OneLess
    <3>3. SumFunctionOnSet(c, s) = c[x] + SumFunctionOnSet(c, u)
      BY <2>1, <2>3, SumStep
    <3>4. Together(A, s) = part \cup rest /\ rest \cap part = {}
      BY <3>1 DEF Together
    <3>5. u \in T
      BY <3>2
    <3>6. SumFunctionOnSet(c, u) = SumFunctionOnSet(f, rest) /\ IsFiniteSet(rest)
      BY <3>5
    <3>7. IsFiniteSet(part) /\ c[x] = SumFunctionOnSet(f, part)
      BY <3>1
    <3>8. \A e \in rest \cup part : f[e] \in Nat
      BY <3>1 DEF Together
    <3> HIDE DEF u, x, rest, part
    <3>9. SumFunctionOnSet(f, rest \cup part) = SumFunctionOnSet(f, rest) + SumFunctionOnSet(f, part)
      BY <3>4, <3>6, <3>7, <3>8, SumUnion
    <3>10. IsFiniteSet(rest \cup part) /\ part \cup rest = rest \cup part
      BY <3>6, <3>7, FS_Union
    <3>11. SumFunctionOnSet(f, rest) \in Nat /\ SumFunctionOnSet(f, part) \in Nat
      BY <3>6, <3>7, <3>8, SumType
    <3>12. SumFunctionOnSet(c, s) = SumFunctionOnSet(f, Together(A, s))
      <4>1. Together(A, s) = rest \cup part
        BY <3>4, <3>10
      <4>2. SumFunctionOnSet(f, Together(A, s)) = SumFunctionOnSet(f, rest) + SumFunctionOnSet(f, part)
        BY <3>9, <4>1
      <4>3. SumFunctionOnSet(c, s) = SumFunctionOnSet(f, part) + SumFunctionOnSet(f, rest)
        BY <3>3, <3>6, <3>7
      <4> HIDE DEF Parts
      <4> QED BY <3>11, <4>2, <4>3
    <3>13. IsFiniteSet(Together(A, s))
      BY <3>4, <3>10
    <3> QED BY <3>12, <3>13
  <2> QED BY <2>2, <2>3
<1>2. X \in T
  <2>1. IsFiniteSet(X)
    OBVIOUS
  <2> HIDE DEF T, Parts
  <2> QED BY <1>1, <2>1, SmallerFirst
<1> QED BY <1>2

(* No number is larger than a sum it is in. *)
LEMMA SumAtLeast ==
  ASSUME NEW f, NEW S, IsFiniteSet(S), \A y \in S : f[y] \in Nat, NEW x \in S
  PROVE  f[x] <= SumFunctionOnSet(f, S)
<1> DEFINE u == S \ {x}
<1>1. SumFunctionOnSet(f, S) = f[x] + SumFunctionOnSet(f, u)
  BY SumRemove
<1>2. IsFiniteSet(u) /\ \A y \in u : f[y] \in Nat
  BY FS_Subset
<1>3. f[x] \in Nat
  OBVIOUS
<1> HIDE DEF u
<1>4. SumFunctionOnSet(f, u) \in Nat
  BY <1>2, SumType
<1> QED BY <1>1, <1>3, <1>4

=============================================================================
