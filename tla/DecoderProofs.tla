--------------------------- MODULE DecoderProofs ---------------------------
(***************************************************************************)
(* For every set of archives, and all sizes of buffers and chunks: the     *)
(* records of an archive come out once each and in order, and truncation   *)
(* is reported exactly when there is one.                                  *)
(***************************************************************************)
EXTENDS RecordDecoder, Sums, SequenceTheorems, TLAPS

-----------------------------------------------------------------------------
(***************************************************************************)
(* Chains.                                                                 *)
(***************************************************************************)
(* The recursive functions of a chain in which p of C is followed by nx[p]:
   one gathers the values v along it, one looks for where it ends. *)
Gathers(n, C, nx, v, g) == g = [p \in 0 .. n |-> IF p \notin C THEN <<>> ELSE <<v[p]>> \o g[nx[p]]]
Seeks(n, C, nx, g) == g = [p \in 0 .. n |-> IF p \notin C THEN p ELSE g[nx[p]]]

(* There are such functions when the chain goes up. *)
LEMMA Chain ==
  ASSUME NEW n \in Nat, NEW C, NEW nx, NEW v,
         \A p \in 0 .. n : p \in C => nx[p] \in p + 1 .. n
  PROVE  (\E g : Gathers(n, C, nx, v, g)) /\ (\E g : Seeks(n, C, nx, g))
<1> DEFINE S == {q \in 0 .. n :
                   \E g : g = [p \in q .. n |-> IF p \notin C THEN <<>> ELSE <<v[p]>> \o g[nx[p]]]}
           T == {q \in 0 .. n : \E g : g = [p \in q .. n |-> IF p \notin C THEN p ELSE g[nx[p]]]}
<1>1. n \in S /\ n \in T
  <2>1. n \notin C
    OBVIOUS
  <2>2. [p \in n .. n |-> <<>>] =
          [p \in n .. n |-> IF p \notin C THEN <<>> ELSE <<v[p]>> \o [q \in n .. n |-> <<>>][nx[p]]]
    BY <2>1
  <2>3. [p \in n .. n |-> p] =
          [p \in n .. n |-> IF p \notin C THEN p ELSE [q \in n .. n |-> q][nx[p]]]
    BY <2>1
  <2>4. \E g : g = [p \in n .. n |-> IF p \notin C THEN <<>> ELSE <<v[p]>> \o g[nx[p]]]
    BY <2>2
  <2>5. \E g : g = [p \in n .. n |-> IF p \notin C THEN p ELSE g[nx[p]]]
    BY <2>3
  <2>6. n \in 0 .. n
    OBVIOUS
  <2>7. n \in S
    BY <2>4, <2>6, Zenon
  <2>8. n \in T
    BY <2>5, <2>6, Zenon
  <2> QED BY <2>7, <2>8
<1>2. \A i \in 1 .. n : i \in S => i - 1 \in S
  <2> SUFFICES ASSUME NEW i \in 1 .. n, i \in S PROVE i - 1 \in S
    OBVIOUS
  <2>1. PICK g : g = [p \in i .. n |-> IF p \notin C THEN <<>> ELSE <<v[p]>> \o g[nx[p]]]
    OBVIOUS
  <2> DEFINE h == [p \in i - 1 .. n |->
                     IF p = i - 1 THEN IF p \notin C THEN <<>> ELSE <<v[p]>> \o g[nx[p]] ELSE g[p]]
  <2>2. \A p \in i - 1 .. n : p \in C => h[nx[p]] = g[nx[p]]
    OBVIOUS
  <2>3. \A p \in i - 1 .. n : h[p] = IF p \notin C THEN <<>> ELSE <<v[p]>> \o g[nx[p]]
    <3> SUFFICES ASSUME NEW p \in i - 1 .. n, p # i - 1
                 PROVE  g[p] = IF p \notin C THEN <<>> ELSE <<v[p]>> \o g[nx[p]]
      OBVIOUS
    <3>1. p \in i .. n
      OBVIOUS
    <3> QED BY <2>1, <3>1
  <2>4. \A p \in i - 1 .. n : h[p] = IF p \notin C THEN <<>> ELSE <<v[p]>> \o h[nx[p]]
    <3> HIDE DEF h
    <3> QED BY <2>2, <2>3
  <2>5. h = [p \in i - 1 .. n |-> h[p]]
    OBVIOUS
  <2>6. h = [p \in i - 1 .. n |-> IF p \notin C THEN <<>> ELSE <<v[p]>> \o h[nx[p]]]
    <3> HIDE DEF h
    <3> QED BY <2>4, <2>5
  <2>7. i - 1 \in 0 .. n
    OBVIOUS
  <2> HIDE DEF h
  <2> QED BY <2>6, <2>7
<1>3. \A i \in 1 .. n : i \in T => i - 1 \in T
  <2> SUFFICES ASSUME NEW i \in 1 .. n, i \in T PROVE i - 1 \in T
    OBVIOUS
  <2>1. PICK g : g = [p \in i .. n |-> IF p \notin C THEN p ELSE g[nx[p]]]
    OBVIOUS
  <2> DEFINE h == [p \in i - 1 .. n |->
                     IF p = i - 1 THEN IF p \notin C THEN p ELSE g[nx[p]] ELSE g[p]]
  <2>2. \A p \in i - 1 .. n : p \in C => h[nx[p]] = g[nx[p]]
    OBVIOUS
  <2>3. \A p \in i - 1 .. n : h[p] = IF p \notin C THEN p ELSE g[nx[p]]
    <3> SUFFICES ASSUME NEW p \in i - 1 .. n, p # i - 1
                 PROVE  g[p] = IF p \notin C THEN p ELSE g[nx[p]]
      OBVIOUS
    <3>1. p \in i .. n
      OBVIOUS
    <3> QED BY <2>1, <3>1
  <2>4. \A p \in i - 1 .. n : h[p] = IF p \notin C THEN p ELSE h[nx[p]]
    <3> HIDE DEF h
    <3> QED BY <2>2, <2>3
  <2>5. h = [p \in i - 1 .. n |-> h[p]]
    OBVIOUS
  <2>6. h = [p \in i - 1 .. n |-> IF p \notin C THEN p ELSE h[nx[p]]]
    <3> HIDE DEF h
    <3> QED BY <2>4, <2>5
  <2>7. i - 1 \in 0 .. n
    OBVIOUS
  <2> HIDE DEF h
  <2> QED BY <2>6, <2>7
<1>4. 0 \in S /\ 0 \in T
  <2> HIDE DEF S, T
  <2> QED BY <1>1, <1>2, <1>3, CountingDown
<1> QED BY <1>4 DEF Gathers, Seeks

-----------------------------------------------------------------------------
(***************************************************************************)
(* The plain stream of an archive.                                         *)
(***************************************************************************)
Cells(f, i) == f.records[i].prefix + f.records[i].body

(* The cells up to the end of record i. *)
Ends(f) == [i \in 0 .. Len(f.records) |->
              Cardinality({p \in DOMAIN Plain(f) : Plain(f)[p][1] <= i})]

(* c is made of the first n records, which end at the e[k]. *)
Built(f, c, n, e) ==
  /\ e \in [0 .. n -> Nat]
  /\ e[0] = 0
  /\ c \in Seq(Nat \X Nat)
  /\ Len(c) = e[n]
  /\ \A k \in 1 .. n : e[k] = e[k - 1] + Cells(f, k)
  /\ \A k \in 1 .. n : \A j \in 1 .. Cells(f, k) : c[e[k - 1] + j] = <<k, j>>

(* The parts of an archive have the types the operators expect. *)
LEMMA FileTypes ==
  ASSUME NEW f \in Files
  PROVE  /\ f.zstd \in BOOLEAN
         /\ Len(f.records) \in Nat \ {0} /\ DOMAIN f.records = 1 .. Len(f.records)
         /\ \A i \in 1 .. Len(f.records) :
              /\ f.records[i] \in RecordSpec
              /\ f.records[i].prefix \in Nat \ {0} /\ f.records[i].body \in Nat
              /\ Cells(f, i) \in Nat \ {0}
         /\ Len(f.blocks) \in Nat /\ DOMAIN f.blocks = 1 .. Len(f.blocks)
         /\ \A i \in 1 .. Len(f.blocks) : f.blocks[i].disk \in Nat /\ f.blocks[i].plain \in Nat
<1>1. f \in File /\ f.records # <<>>
  BY FilesAssumption
<1>2. f.records \in Seq(RecordSpec) /\ f.blocks \in Seq(BlockSpec) /\ f.zstd \in BOOLEAN
  BY <1>1 DEF File
<1>3. /\ Len(f.records) \in Nat /\ DOMAIN f.records = 1 .. Len(f.records)
      /\ Len(f.blocks) \in Nat /\ DOMAIN f.blocks = 1 .. Len(f.blocks)
  BY <1>2, LenProperties
<1>4. Len(f.records) # 0
  BY <1>1, <1>2, EmptySeq
<1>5. \A i \in 1 .. Len(f.records) : f.records[i] \in RecordSpec
  BY <1>2, ElementOfSeq
<1>6. \A i \in 1 .. Len(f.records) :
        f.records[i].prefix \in Nat \ {0} /\ f.records[i].body \in Nat
  BY <1>5 DEF RecordSpec
<1>7. \A i \in 1 .. Len(f.records) : Cells(f, i) \in Nat \ {0}
  BY <1>6 DEF Cells
<1>8. \A i \in 1 .. Len(f.blocks) : f.blocks[i] \in BlockSpec
  BY <1>2, ElementOfSeq
<1>9. \A i \in 1 .. Len(f.blocks) : f.blocks[i].disk \in Nat /\ f.blocks[i].plain \in Nat
  BY <1>8 DEF BlockSpec
<1> QED BY <1>2, <1>3, <1>4, <1>5, <1>6, <1>7, <1>9

(* Numbers that grow from each to the next grow from each to any later one. *)
LEMMA Rising ==
  ASSUME NEW n \in Nat, NEW e \in [0 .. n -> Nat],
         \A k \in 1 .. n : e[k - 1] < e[k]
  PROVE  \A i, k \in 0 .. n : i < k => e[i] < e[k]
<1> SUFFICES ASSUME NEW i \in 0 .. n PROVE \A k \in 0 .. n : i < k => e[i] < e[k]
  OBVIOUS
<1> DEFINE T == {k \in 0 .. n : i < k => e[i] < e[k]}
<1>1. 0 \in T
  OBVIOUS
<1>2. \A k \in 0 .. n : k \in T /\ k < n => k + 1 \in T
  <2> SUFFICES ASSUME NEW k \in 0 .. n, k \in T, k < n, i < k + 1 PROVE e[i] < e[k + 1]
    OBVIOUS
  <2>1. k + 1 \in 1 .. n /\ (k + 1) - 1 = k
    OBVIOUS
  <2>2. e[k] < e[k + 1]
    BY <2>1
  <2>3. e[i] \in Nat /\ e[k] \in Nat /\ e[k + 1] \in Nat
    BY <2>1
  <2>4. CASE i = k
    BY <2>2, <2>4
  <2>5. CASE i < k
    BY <2>2, <2>3, <2>5
  <2> QED BY <2>4, <2>5
<1>3. 0 .. n \subseteq T
  <2> HIDE DEF T
  <2> QED BY <1>1, <1>2, CountingUp
<1> QED BY <1>3

(* The ends of the records are in order. *)
LEMMA BuiltRises ==
  ASSUME NEW f \in Files, NEW c, NEW n \in 0 .. Len(f.records), NEW e, Built(f, c, n, e)
  PROVE  \A i, k \in 0 .. n : i < k => e[i] < e[k]
<1>1. e \in [0 .. n -> Nat] /\ n \in Nat
  BY FileTypes DEF Built
<1>2. \A k \in 1 .. n : e[k - 1] < e[k]
  <2> TAKE k \in 1 .. n
  <2>1. e[k] = e[k - 1] + Cells(f, k) /\ k \in 1 .. Len(f.records)
    BY FileTypes DEF Built
  <2>2. Cells(f, k) \in Nat \ {0} /\ e[k - 1] \in Nat
    BY <1>1, <2>1, FileTypes
  <2> QED BY <2>1, <2>2
<1> QED BY <1>1, <1>2, Rising

(* Another record makes the stream longer by its cells. *)
LEMMA BuiltGrows ==
  ASSUME NEW f \in Files, NEW c, NEW n \in 0 .. Len(f.records), n < Len(f.records),
         NEW e, Built(f, c, n, e)
  PROVE  Built(f, c \o [j \in 1 .. Cells(f, n + 1) |-> <<n + 1, j>>], n + 1,
               [k \in 0 .. n + 1 |-> IF k <= n THEN e[k] ELSE e[n] + Cells(f, n + 1)])
<1> DEFINE m == Cells(f, n + 1)
           s == [j \in 1 .. m |-> <<n + 1, j>>]
           e1 == [k \in 0 .. n + 1 |-> IF k <= n THEN e[k] ELSE e[n] + m]
<1> SUFFICES Built(f, c \o s, n + 1, e1)
  OBVIOUS
<1>1. /\ n \in Nat /\ n + 1 \in 1 .. Len(f.records)
      /\ m \in Nat \ {0}
  BY FileTypes
<1>2. e \in [0 .. n -> Nat] /\ e[n] \in Nat /\ c \in Seq(Nat \X Nat) /\ Len(c) = e[n]
  BY <1>1 DEF Built
<1>3. s \in Seq(Nat \X Nat) /\ Len(s) = m
  <2>1. s \in [1 .. m -> Nat \X Nat]
    BY <1>1
  <2> QED BY <2>1, <1>1, IsASeq, LenProperties
<1>4. /\ c \o s \in Seq(Nat \X Nat)
      /\ Len(c \o s) = Len(c) + Len(s)
      /\ \A i \in 1 .. Len(c) + Len(s) : (c \o s)[i] = IF i <= Len(c) THEN c[i] ELSE s[i - Len(c)]
  BY <1>2, <1>3, ConcatProperties
<1>5. e1 \in [0 .. n + 1 -> Nat] /\ e1[0] = 0 /\ e1[n + 1] = e[n] + m
  <2>1. e[0] = 0
    BY DEF Built
  <2>2. \A k \in 0 .. n + 1 : e1[k] \in Nat
    BY <1>1, <1>2
  <2>3. e1[0] = 0 /\ e1[n + 1] = e[n] + m
    BY <1>1, <2>1
  <2>4. e1 = [k \in 0 .. n + 1 |-> e1[k]]
    OBVIOUS
  <2> HIDE DEF e1
  <2> QED BY <2>2, <2>3, <2>4
<1>6. Len(c \o s) = e1[n + 1]
  BY <1>2, <1>3, <1>4, <1>5
<1>7. \A k \in 1 .. n : e1[k] = e[k] /\ e1[k - 1] = e[k - 1]
  BY <1>1
<1>8. e1[n] = e[n]
  BY <1>1
<1>11. \A j \in 1 .. Cells(f, n + 1) : s[j] = <<n + 1, j>>
  OBVIOUS
<1> HIDE DEF s, e1
<1>9. \A k \in 1 .. n + 1 : e1[k] = e1[k - 1] + Cells(f, k)
  <2> TAKE k \in 1 .. n + 1
  <2>1. CASE k = n + 1
    <3>1. k - 1 = n
      BY <1>1, <2>1
    <3> QED BY <1>5, <1>8, <2>1, <3>1
  <2>2. CASE k \in 1 .. n
    <3>1. e[k] = e[k - 1] + Cells(f, k)
      BY <2>2 DEF Built
    <3> QED BY <1>7, <2>2, <3>1
  <2> QED BY <1>1, <2>1, <2>2
<1>10. \A k \in 1 .. n + 1 : \A j \in 1 .. Cells(f, k) : (c \o s)[e1[k - 1] + j] = <<k, j>>
  <2> TAKE k \in 1 .. n + 1
  <2> TAKE j \in 1 .. Cells(f, k)
  <2>0. Cells(f, k) \in Nat
    BY <1>1, FileTypes
  <2>1. CASE k = n + 1
    <3>1. e1[k - 1] = Len(c) /\ Len(c) \in Nat
      BY <1>1, <1>2, <1>8, <2>1
    <3>2. Len(c) + j \in 1 .. Len(c) + Len(s) /\ ~(Len(c) + j <= Len(c)) /\ (Len(c) + j) - Len(c) = j
      BY <1>3, <2>0, <2>1, <3>1
    <3>3. (c \o s)[Len(c) + j] = s[j]
      BY <1>4, <3>2
    <3>4. s[j] = <<k, j>>
      BY <1>11, <2>1
    <3> QED BY <3>1, <3>3, <3>4
  <2>2. CASE k \in 1 .. n
    <3>1. e[k] = e[k - 1] + Cells(f, k) /\ c[e[k - 1] + j] = <<k, j>>
      BY <2>2 DEF Built
    <3>2. e[k] <= e[n]
      <4>1. k < n => e[k] < e[n]
        BY <1>1, <2>2, BuiltRises
      <4> QED BY <1>1, <1>2, <2>2, <4>1
    <3>3. e[k - 1] \in Nat /\ e[k] \in Nat
      BY <1>1, <1>2, <2>2
    <3>4. e[k - 1] + j \in 1 .. Len(c)
      <4>1. j \in Nat /\ 1 <= j /\ j <= Cells(f, k)
        BY <2>0
      <4>2. 1 <= e[k - 1] + j /\ e[k - 1] + j <= e[k] /\ e[k - 1] + j \in Nat
        BY <2>0, <3>1, <3>3, <4>1
      <4> QED BY <1>2, <3>2, <3>3, <4>2
    <3>5. (c \o s)[e[k - 1] + j] = c[e[k - 1] + j]
      BY <1>1, <1>2, <1>3, <1>4, <3>4
    <3>6. e1[k - 1] = e[k - 1]
      BY <1>7, <2>2
    <3>7. (c \o s)[e1[k - 1] + j] = (c \o s)[e[k - 1] + j]
      BY <3>6
    <3> QED BY <3>1, <3>5, <3>7
  <2>3. k = n + 1 \/ k \in 1 .. n
    BY <1>1
  <2> QED BY <2>1, <2>2, <2>3
<1> QED BY <1>4, <1>5, <1>6, <1>9, <1>10 DEF Built

(* FlattenSeq, without its recursion: the stream is made of all the records. *)
LEMMA PlainIsBuilt ==
  ASSUME NEW f \in Files
  PROVE  \E e : Built(f, Plain(f), Len(f.records), e)
<1> DEFINE N == Len(f.records)
           s == [i \in DOMAIN f.records |->
                   [j \in 1 .. f.records[i].prefix + f.records[i].body |-> <<i, j>>]]
           Solves(g, n) == g = [i \in 1 .. n |-> IF i = 1 THEN s[i] ELSE g[i - 1] \o s[i]]
           c == CHOOSE g : Solves(g, N)
<1>1. N \in Nat \ {0} /\ DOMAIN f.records = 1 .. N
  BY FileTypes
<1>2. Len(s) = N
  BY <1>1
<1>3. Plain(f) = c[N]
  <2>1. Len(s) # 0
    BY <1>1, <1>2
  <2>2. Plain(f) = (CHOOSE g : g = [i \in 1 .. Len(s) |-> IF i = 1 THEN s[i] ELSE g[i - 1] \o s[i]])[Len(s)]
    BY <2>1 DEF Plain, FlattenSeq
  <2> HIDE DEF s
  <2> QED BY <1>2, <2>2
<1>4. \A i \in 1 .. N : s[i] = [j \in 1 .. Cells(f, i) |-> <<i, j>>]
  BY <1>1 DEF Cells
<1> HIDE DEF s
<1>5. \E g : Solves(g, N)
  <2> DEFINE T == {n \in 0 .. N : \E g : Solves(g, n)}
  <2>1. 0 \in T
    <3>1. Solves([i \in 1 .. 0 |-> 0], 0)
      OBVIOUS
    <3>2. 0 \in 0 .. N
      BY <1>1
    <3> HIDE DEF Solves
    <3> QED BY <3>1, <3>2
  <2>2. \A n \in 0 .. N : n \in T /\ n < N => n + 1 \in T
    <3> SUFFICES ASSUME NEW n \in 0 .. N, n \in T, n < N PROVE n + 1 \in T
      OBVIOUS
    <3>1. PICK g : Solves(g, n)
      OBVIOUS
    <3> DEFINE h == [i \in 1 .. n + 1 |->
                       IF i = n + 1 THEN IF i = 1 THEN s[i] ELSE g[i - 1] \o s[i] ELSE g[i]]
    <3>2. \A i \in 1 .. n + 1 : i # 1 => h[i - 1] = g[i - 1]
      BY <1>1
    <3>3. \A i \in 1 .. n + 1 : h[i] = IF i = 1 THEN s[i] ELSE g[i - 1] \o s[i]
      <4> SUFFICES ASSUME NEW i \in 1 .. n + 1, i # n + 1
                   PROVE  g[i] = IF i = 1 THEN s[i] ELSE g[i - 1] \o s[i]
        OBVIOUS
      <4>1. i \in 1 .. n
        BY <1>1
      <4> QED BY <3>1, <4>1
    <3>4. h = [i \in 1 .. n + 1 |-> h[i]]
      OBVIOUS
    <3>5. Solves(h, n + 1)
      <4> HIDE DEF h
      <4> QED BY <3>2, <3>3, <3>4
    <3>6. n + 1 \in 0 .. N
      BY <1>1
    <3> HIDE DEF h, Solves
    <3> QED BY <3>5, <3>6
  <2>3. 0 .. N \subseteq T
    <3> HIDE DEF T
    <3> QED BY <1>1, <2>1, <2>2, CountingUp
  <2>4. N \in T
    <3>1. N \in 0 .. N
      BY <1>1
    <3> HIDE DEF T
    <3> QED BY <2>3, <3>1
  <2> HIDE DEF Solves
  <2> QED BY <2>4
<1>6. Solves(c, N)
  <2> HIDE DEF Solves
  <2> QED BY <1>5
<1>7. /\ c[1] = s[1]
      /\ \A n \in 1 .. N : n < N => c[n + 1] = c[n] \o s[n + 1]
  <2>1. \A i \in 1 .. N : c[i] = IF i = 1 THEN s[i] ELSE c[i - 1] \o s[i]
    <3> HIDE DEF c
    <3> QED BY <1>6
  <2> HIDE DEF c
  <2>2. c[1] = s[1]
    <3>1. 1 \in 1 .. N
      BY <1>1
    <3> QED BY <2>1, <3>1
  <2>3. ASSUME NEW n \in 1 .. N, n < N PROVE c[n + 1] = c[n] \o s[n + 1]
    <3>1. n + 1 \in 1 .. N /\ n + 1 # 1 /\ (n + 1) - 1 = n
      BY <1>1, <2>3
    <3> QED BY <2>1, <3>1
  <2> QED BY <2>2, <2>3
<1> HIDE DEF c
<1> DEFINE T == {n \in 0 .. N : n = 0 \/ \E e : Built(f, c[n], n, e)}
<1>8. 0 \in T
  BY <1>1
<1>9. \A n \in 0 .. N : n \in T /\ n < N => n + 1 \in T
  <2> SUFFICES ASSUME NEW n \in 0 .. N, n \in T, n < N PROVE n + 1 \in T
    OBVIOUS
  <2>1. n + 1 \in 1 .. N /\ n + 1 \in 0 .. N
    BY <1>1
  <2>2. CASE n = 0
    <3> DEFINE e0 == [k \in 0 .. 0 |-> 0]
    <3>1. Built(f, <<>>, n, e0)
      <4>1. <<>> \in Seq(Nat \X Nat) /\ Len(<<>>) = 0
        BY EmptySeq
      <4>2. e0 \in [0 .. 0 -> Nat] /\ e0[0] = 0 /\ 1 .. 0 = {}
        OBVIOUS
      <4> HIDE DEF e0
      <4>3. Built(f, <<>>, 0, e0)
        BY <4>1, <4>2 DEF Built
      <4> QED BY <2>2, <4>3
    <3> HIDE DEF e0
    <3>2. \E e : Built(f, <<>> \o [j \in 1 .. Cells(f, n + 1) |-> <<n + 1, j>>], n + 1, e)
      BY <1>1, <3>1, BuiltGrows
    <3>3. s[1] \in Seq(Nat \X Nat)
      <4>1. Cells(f, 1) \in Nat /\ 1 \in 1 .. N
        BY <1>1, FileTypes
      <4>2. s[1] = [j \in 1 .. Cells(f, 1) |-> <<1, j>>]
        BY <1>4, <4>1
      <4>3. s[1] \in [1 .. Cells(f, 1) -> Nat \X Nat]
        BY <4>1, <4>2
      <4> QED BY <4>1, <4>3, IsASeq
    <3>4. <<>> \o s[1] = s[1]
      BY <3>3, ConcatEmptySeq
    <3>5. \E e : Built(f, c[1], 1, e)
      <4>1. n + 1 = 1 /\ 1 \in 1 .. N
        BY <1>1, <2>2
      <4>2. <<>> \o [j \in 1 .. Cells(f, 1) |-> <<1, j>>] = c[1]
        BY <1>4, <1>7, <3>4, <4>1
      <4> QED BY <3>2, <4>1, <4>2
    <3> QED BY <2>1, <2>2, <3>5
  <2>3. CASE n # 0
    <3>1. PICK e : Built(f, c[n], n, e)
      BY <2>3
    <3>2. \E e1 : Built(f, c[n] \o [j \in 1 .. Cells(f, n + 1) |-> <<n + 1, j>>], n + 1, e1)
      BY <1>1, <3>1, BuiltGrows
    <3>3. c[n + 1] = c[n] \o [j \in 1 .. Cells(f, n + 1) |-> <<n + 1, j>>]
      <4>0. n \in 1 .. N
        BY <1>1, <2>3
      <4>1. c[n + 1] = c[n] \o s[n + 1]
        BY <1>7, <4>0
      <4>2. s[n + 1] = [j \in 1 .. Cells(f, n + 1) |-> <<n + 1, j>>]
        BY <1>4, <2>1
      <4> QED BY <4>1, <4>2
    <3> QED BY <2>1, <3>2, <3>3
  <2> QED BY <2>2, <2>3
<1>10. 0 .. N \subseteq T
  <2> HIDE DEF T
  <2> QED BY <1>1, <1>8, <1>9, CountingUp
<1>11. N \in 0 .. N /\ N # 0
  BY <1>1
<1> QED BY <1>3, <1>10, <1>11

(* The shape of the plain stream: where each record ends, and what its cells
   are. *)
LEMMA PlainShape ==
  ASSUME NEW f \in Files
  PROVE  /\ Built(f, Plain(f), Len(f.records), Ends(f))
         /\ \A i, k \in 0 .. Len(f.records) : i < k => Ends(f)[i] < Ends(f)[k]
<1> DEFINE N == Len(f.records)
           P == Plain(f)
<1>1. PICK e : Built(f, P, N, e)
  BY PlainIsBuilt
<1>2. N \in Nat \ {0} /\ N \in 0 .. N
  BY FileTypes
<1>3. \A i, k \in 0 .. N : i < k => e[i] < e[k]
  BY <1>1, <1>2, BuiltRises
<1>4. e \in [0 .. N -> Nat] /\ e[0] = 0 /\ P \in Seq(Nat \X Nat) /\ Len(P) = e[N]
  BY <1>1 DEF Built
<1>5. DOMAIN P = 1 .. Len(P) /\ Len(P) \in Nat
  BY <1>4, LenProperties
<1>6. \A k \in 1 .. N : k - 1 \in 0 .. N /\ k \in 0 .. N /\ e[k] = e[k - 1] + Cells(f, k)
  BY <1>1, <1>2 DEF Built
<1>7. ASSUME NEW p \in 1 .. Len(P)
      PROVE  \E k \in 1 .. N : P[p][1] = k /\ e[k - 1] < p /\ p <= e[k]
  <2> DEFINE T == {k \in 0 .. N : p <= e[k]}
  <2>1. T \in SUBSET Nat /\ T # {}
    <3>1. N \in T
      BY <1>2, <1>4, <1>7
    <3> QED BY <1>2, <3>1
  <2>2. PICK k \in T : \A i \in T : k <= i
    BY <2>1, LeastNat
  <2>3. k \in 1 .. N
    <3>1. k # 0
      BY <1>4, <1>7
    <3>2. k \in 0 .. N
      OBVIOUS
    <3> QED BY <1>2, <3>1, <3>2
  <2>4. k - 1 \in 0 .. N /\ e[k - 1] \in Nat /\ e[k] \in Nat
    BY <1>4, <1>6, <2>3
  <2>5. e[k - 1] < p
    <3>1. k - 1 \notin T
      BY <1>2, <2>2, <2>3
    <3> QED BY <1>7, <2>4, <3>1
  <2>6. p <= e[k]
    OBVIOUS
  <2> DEFINE j == p - e[k - 1]
  <2>7. e[k] = e[k - 1] + Cells(f, k) /\ Cells(f, k) \in Nat
    BY <1>6, <2>3, FileTypes
  <2>8. p \in Int /\ e[k - 1] + j = p
    BY <2>4
  <2>9. j \in 1 .. Cells(f, k)
    BY <2>4, <2>5, <2>6, <2>7, <2>8
  <2>10. P[e[k - 1] + j] = <<k, j>>
    <3> HIDE DEF j
    <3> QED BY <1>1, <2>3, <2>9 DEF Built
  <2>11. P[p] = <<k, j>>
    <3> HIDE DEF j
    <3> QED BY <2>8, <2>10
  <2>12. P[p][1] = k
    BY <2>11
  <2> QED BY <2>3, <2>5, <2>6, <2>12
<1>8. ASSUME NEW i \in 0 .. N PROVE {p \in DOMAIN P : P[p][1] <= i} = 1 .. e[i]
  <2>1. e[i] \in Nat /\ e[i] <= Len(P)
    <3>1. i < N => e[i] < e[N]
      BY <1>2, <1>3
    <3>2. e[i] \in Nat /\ e[N] \in Nat
      BY <1>2, <1>4
    <3> QED BY <1>2, <1>4, <3>1, <3>2
  <2>2. ASSUME NEW p \in 1 .. Len(P) PROVE P[p][1] <= i <=> p <= e[i]
    <3>1. PICK k \in 1 .. N : P[p][1] = k /\ e[k - 1] < p /\ p <= e[k]
      BY <1>7
    <3>2. k - 1 \in 0 .. N /\ k \in 0 .. N /\ e[k - 1] \in Nat /\ e[k] \in Nat
      BY <1>4, <1>6
    <3>3. CASE k <= i
      <4>1. k < i => e[k] < e[i]
        BY <1>3, <3>2
      <4>2. e[k] <= e[i]
        BY <2>1, <3>2, <3>3, <4>1
      <4> QED BY <2>1, <3>1, <3>2, <3>3, <4>2
    <3>4. CASE i < k
      <4>1. i < k - 1 => e[i] < e[k - 1]
        BY <1>3, <3>2
      <4>2. i = k - 1 \/ i < k - 1
        BY <1>2, <3>4
      <4>3. e[i] <= e[k - 1]
        BY <2>1, <3>2, <4>1, <4>2
      <4>4. ~(k <= i) /\ ~(p <= e[i])
        BY <1>2, <2>1, <3>1, <3>2, <3>4, <4>3
      <4> QED BY <3>1, <4>4
    <3>5. k <= i \/ i < k
      BY <1>2
    <3> QED BY <3>3, <3>4, <3>5
  <2>3. {p \in 1 .. Len(P) : P[p][1] <= i} = {p \in 1 .. Len(P) : p <= e[i]}
    BY <2>2
  <2>4. {p \in 1 .. Len(P) : p <= e[i]} = 1 .. e[i]
    BY <1>5, <2>1
  <2> QED BY <1>5, <2>3, <2>4
<1>9. \A i \in 0 .. N : Ends(f)[i] = e[i]
  <2> TAKE i \in 0 .. N
  <2>1. Ends(f)[i] = Cardinality(1 .. e[i])
    BY <1>8 DEF Ends
  <2>2. e[i] \in Nat
    BY <1>4
  <2> DEFINE m == e[i]
  <2>3. Cardinality(1 .. m) = m
    <3>1. m \in Nat /\ m \in Int /\ 1 \in Int
      BY <2>2
    <3> HIDE DEF m
    <3>2. Cardinality(1 .. m) = IF 1 > m THEN 0 ELSE m - 1 + 1
      BY <3>1, FS_Interval
    <3> QED BY <3>1, <3>2
  <2>4. Cardinality(1 .. e[i]) = e[i]
    BY <2>3
  <2> QED BY <2>1, <2>4
<1>10. Ends(f) = e
  <2>1. Ends(f) = [i \in 0 .. N |-> Ends(f)[i]]
    BY DEF Ends
  <2> QED BY <1>4, <1>9, <2>1
<1> QED BY <1>1, <1>3, <1>10

(* The same, record by record. *)
LEMMA EndsSteps ==
  ASSUME NEW f \in Files
  PROVE  /\ Ends(f) \in [0 .. Len(f.records) -> Nat]
         /\ Ends(f)[0] = 0
         /\ Plain(f) \in Seq(Nat \X Nat)
         /\ Len(Plain(f)) \in Nat /\ Len(Plain(f)) = Ends(f)[Len(f.records)]
         /\ \A n \in 0 .. Len(f.records) : Ends(f)[n] <= Len(Plain(f))
         /\ \A n \in 0 .. Len(f.records) : n < Len(f.records) =>
              /\ n + 1 \in 1 .. Len(f.records)
              /\ Ends(f)[n + 1] = (Ends(f)[n] + f.records[n + 1].prefix) + f.records[n + 1].body
              /\ \A j \in 1 .. Cells(f, n + 1) : Plain(f)[Ends(f)[n] + j] = <<n + 1, j>>
         /\ Ends(f)[1] >= MagicLen
<1> DEFINE N == Len(f.records)
<1>1. /\ Built(f, Plain(f), N, Ends(f))
      /\ \A i, k \in 0 .. N : i < k => Ends(f)[i] < Ends(f)[k]
  BY PlainShape
<1>2. N \in Nat \ {0} /\ N \in 0 .. N
  BY FileTypes
<1>3. /\ Ends(f) \in [0 .. N -> Nat]
      /\ Ends(f)[0] = 0
      /\ Plain(f) \in Seq(Nat \X Nat)
      /\ Len(Plain(f)) \in Nat /\ Len(Plain(f)) = Ends(f)[N]
  BY <1>1, <1>2 DEF Built
<1>4. ASSUME NEW n \in 0 .. N PROVE Ends(f)[n] <= Len(Plain(f))
  <2>1. n < N => Ends(f)[n] < Ends(f)[N]
    BY <1>1, <1>2
  <2>2. Ends(f)[n] \in Nat
    BY <1>3
  <2>3. n = N \/ n < N
    BY <1>2
  <2> QED BY <1>3, <2>1, <2>2, <2>3
<1>5. ASSUME NEW n \in 0 .. N, n < N
      PROVE  /\ n + 1 \in 1 .. N
             /\ Ends(f)[n + 1] = (Ends(f)[n] + f.records[n + 1].prefix) + f.records[n + 1].body
             /\ \A j \in 1 .. Cells(f, n + 1) : Plain(f)[Ends(f)[n] + j] = <<n + 1, j>>
  <2> DEFINE k == n + 1
  <2>1. k \in 1 .. N /\ k - 1 = n
    BY <1>2, <1>5
  <2> HIDE DEF k
  <2>2. /\ Ends(f)[k] = Ends(f)[k - 1] + Cells(f, k)
        /\ \A j \in 1 .. Cells(f, k) : Plain(f)[Ends(f)[k - 1] + j] = <<k, j>>
    BY <1>1, <2>1 DEF Built
  <2>3. f.records[k].prefix \in Nat /\ f.records[k].body \in Nat /\ Ends(f)[n] \in Nat
    BY <1>3, <2>1, FileTypes
  <2>4. Ends(f)[k] = (Ends(f)[n] + f.records[k].prefix) + f.records[k].body
    BY <2>1, <2>2, <2>3 DEF Cells
  <2>5. \A j \in 1 .. Cells(f, k) : Plain(f)[Ends(f)[n] + j] = <<k, j>>
    BY <2>1, <2>2
  <2> QED BY <2>1, <2>4, <2>5 DEF k
<1>6. Ends(f)[1] >= MagicLen
  <2>1. 1 \in 1 .. N /\ 1 - 1 = 0
    BY <1>2
  <2>2. Ends(f)[1] = Ends(f)[0] + Cells(f, 1)
    BY <1>1, <2>1 DEF Built
  <2>3. Cells(f, 1) >= MagicLen /\ Cells(f, 1) \in Nat
    BY <2>1, FilesAssumption, FileTypes DEF Cells
  <2> QED BY <1>3, <2>2, <2>3
<1> QED BY <1>3, <1>4, <1>5, <1>6

(* The property's name for where a record ends. *)
LEMMA EndOfIs ==
  ASSUME file \in Files, NEW i \in 0 .. Len(file.records)
  PROVE  EndOf(i) = Ends(file)[i]
BY DEF EndOf, Ends

-----------------------------------------------------------------------------
(***************************************************************************)
(* Scanning.                                                               *)
(***************************************************************************)
(* The buffer of dec holds the plain stream from cell b to cell o, and its
   first unscanned cell is the one after record n. *)
OutAt(dec, b, n, o) ==
  /\ b \in Nat /\ o \in Nat /\ o <= Len(Plain(file))
  /\ n \in 0 .. Len(file.records)
  /\ dec.out = SubSeq(Plain(file), b + 1, o)
  /\ dec.outPos \in Nat
  /\ b + dec.outPos = Ends(file)[n]
  /\ Ends(file)[n] <= o

(* Record n + 1 can be taken out of the first o cells. *)
Whole(n, o) ==
  /\ n < Len(file.records)
  /\ file.records[n + 1].kind = "good"
  /\ Ends(file)[n + 1] <= o

(* The first o cells show that record n + 1 is not one. *)
Broken(n, o) ==
  /\ n < Len(file.records)
  /\ file.records[n + 1].kind # "good"
  /\ Ends(file)[n] + file.records[n + 1].prefix <= o

(* What the buffer holds, cell by cell. *)
LEMMA OutShape ==
  ASSUME file \in Files, NEW dec, NEW b, NEW n, NEW o, OutAt(dec, b, n, o)
  PROVE  /\ dec.out \in Seq(Nat \X Nat)
         /\ b <= o /\ Len(dec.out) = o - b
         /\ \A i \in 1 .. o - b : dec.out[i] = Plain(file)[b + i]
<1>1. /\ b \in Nat /\ o \in Nat /\ o <= Len(Plain(file))
      /\ n \in 0 .. Len(file.records)
      /\ dec.out = SubSeq(Plain(file), b + 1, o)
      /\ dec.outPos \in Nat /\ b + dec.outPos = Ends(file)[n] /\ Ends(file)[n] <= o
  BY DEF OutAt
<1>2. Plain(file) \in Seq(Nat \X Nat) /\ Len(Plain(file)) \in Nat /\ Ends(file)[n] \in Nat
  BY <1>1, EndsSteps
<1>3. b <= o
  BY <1>1, <1>2
<1>4. \A i \in b + 1 .. o : Plain(file)[i] \in Nat \X Nat
  <2> TAKE i \in b + 1 .. o
  <2>1. i \in 1 .. Len(Plain(file))
    BY <1>1, <1>2
  <2> QED BY <1>2, <2>1, ElementOfSeq
<1>5. b + 1 \in Int /\ o \in Int
  BY <1>1
<1>6. /\ SubSeq(Plain(file), b + 1, o) \in Seq(Nat \X Nat)
      /\ Len(SubSeq(Plain(file), b + 1, o)) = IF b + 1 <= o THEN o - (b + 1) + 1 ELSE 0
      /\ \A i \in 1 .. o - (b + 1) + 1 : SubSeq(Plain(file), b + 1, o)[i] = Plain(file)[b + 1 + i - 1]
  BY <1>4, <1>5, SubSeqProperties
<1>7. Len(dec.out) = o - b
  BY <1>1, <1>3, <1>6
<1>8. \A i \in 1 .. o - b : dec.out[i] = Plain(file)[b + i]
  <2> TAKE i \in 1 .. o - b
  <2>1. i \in 1 .. o - (b + 1) + 1 /\ b + 1 + i - 1 = b + i
    BY <1>1
  <2> QED BY <1>1, <1>6, <2>1
<1> QED BY <1>1, <1>3, <1>6, <1>7, <1>8

(* A record that lies complete in the buffer ends after its start. *)
LEMMA CompleteAdvances ==
  ASSUME file \in Files, NEW dec, Len(dec.out) \in Nat,
         NEW p \in 0 .. Len(dec.out), CompleteAt(dec, p)
  PROVE  p + SpecAt(dec, p).prefix + SpecAt(dec, p).body \in p + 1 .. Len(dec.out)
<1>1. dec.out[p + 1][1] \in 1 .. Len(file.records)
  BY FileTypes DEF CompleteAt, PrefixAt
<1>2. SpecAt(dec, p).prefix \in Nat \ {0} /\ SpecAt(dec, p).body \in Nat
  BY <1>1, FileTypes DEF SpecAt
<1>3. p + SpecAt(dec, p).prefix + SpecAt(dec, p).body <= Len(dec.out)
  BY DEF CompleteAt
<1> QED BY <1>2, <1>3

(* A position in the buffer against one in the stream. *)
LEMMA Shifted ==
  ASSUME NEW b \in Nat, NEW o \in Nat, NEW e \in Nat, NEW x \in Nat \ {0}, NEW y \in Nat
  PROVE  /\ (e - b) + x <= o - b <=> e + x <= o
         /\ (e - b) + x + y <= o - b <=> (e + x) + y <= o
         /\ (e + x) + y <= o => e + x <= o
         /\ e + x <= o => e - b < o - b
OBVIOUS

(* At the first cell of record m + 1, scan sees that record. *)
LEMMA AtStart ==
  ASSUME file \in Files, NEW dec, NEW b, NEW n, NEW o, OutAt(dec, b, n, o),
         NEW m \in 0 .. Len(file.records), n <= m, Ends(file)[m] <= o
  PROVE  /\ Ends(file)[m] - b \in 0 .. Len(dec.out)
         /\ PrefixAt(dec, Ends(file)[m] - b) =>
              /\ m < Len(file.records)
              /\ Ends(file)[m] + file.records[m + 1].prefix <= o
              /\ SpecAt(dec, Ends(file)[m] - b) = file.records[m + 1]
              /\ dec.out[Ends(file)[m] - b + 1][2] = 1
         /\ CompleteAt(dec, Ends(file)[m] - b) <=> Whole(m, o)
         /\ (/\ PrefixAt(dec, Ends(file)[m] - b)
             /\ \/ dec.out[Ends(file)[m] - b + 1][2] # 1
                \/ SpecAt(dec, Ends(file)[m] - b).kind # "good") <=> Broken(m, o)
<1> DEFINE N == Len(file.records)
           E == Ends(file)
           p == E[m] - b
<1>1. /\ b \in Nat /\ o \in Nat /\ o <= Len(Plain(file))
      /\ n \in 0 .. N /\ dec.outPos \in Nat /\ b + dec.outPos = E[n]
  BY DEF OutAt
<1>2. /\ b <= o /\ Len(dec.out) = o - b
      /\ \A i \in 1 .. o - b : dec.out[i] = Plain(file)[b + i]
  BY OutShape
<1>3. E[m] \in Nat /\ E[n] \in Nat /\ E[n] <= E[m]
  <2>1. n < m => E[n] < E[m]
    BY <1>1, PlainShape
  <2>2. E[m] \in Nat /\ E[n] \in Nat
    BY <1>1, EndsSteps
  <2>3. n \in Nat /\ m \in Nat
    BY <1>1
  <2> QED BY <2>1, <2>2, <2>3
<1>4. p \in 0 .. Len(dec.out) /\ b + (p + 1) = E[m] + 1 /\ p \in Nat
  <2> DEFINE e == E[m]
             e0 == E[n]
  <2>1. /\ b \in Nat /\ o \in Nat /\ e \in Nat /\ e0 \in Nat /\ e0 <= e /\ e <= o
        /\ dec.outPos \in Nat /\ b + dec.outPos = e0 /\ Len(dec.out) = o - b
    BY <1>1, <1>2, <1>3
  <2> HIDE DEF e, e0, E
  <2>2. e - b \in 0 .. Len(dec.out) /\ b + ((e - b) + 1) = e + 1 /\ e - b \in Nat
    BY <2>1
  <2> QED BY <2>2 DEF e, E
<1>5. CASE m = N
  <2>1. E[m] = Len(Plain(file))
    BY <1>5, EndsSteps
  <2>2. ~(p < Len(dec.out))
    BY <1>1, <1>2, <1>3, <1>4, <2>1
  <2>3. ~PrefixAt(dec, p)
    BY <2>2 DEF PrefixAt
  <2>4. ~Whole(m, o) /\ ~Broken(m, o)
    BY <1>5, FileTypes DEF Whole, Broken
  <2>5. ~CompleteAt(dec, p)
    BY <2>3 DEF CompleteAt
  <2> QED BY <1>4, <2>3, <2>4, <2>5
<1>6. CASE m < N
  <2> DEFINE r == file.records[m + 1]
  <2>1. /\ m + 1 \in 1 .. N /\ r.prefix \in Nat \ {0} /\ r.body \in Nat
        /\ Cells(file, m + 1) \in Nat \ {0}
    BY <1>6, EndsSteps, FileTypes
  <2>2. /\ E[m + 1] = (E[m] + r.prefix) + r.body
        /\ Plain(file)[E[m] + 1] = <<m + 1, 1>>
    <3>1. 1 \in 1 .. Cells(file, m + 1)
      BY <2>1
    <3>2. \A j \in 1 .. Cells(file, m + 1) : Plain(file)[E[m] + j] = <<m + 1, j>>
      BY <1>6, EndsSteps
    <3>3. E[m + 1] = (E[m] + r.prefix) + r.body
      BY <1>6, EndsSteps
    <3> QED BY <3>1, <3>2, <3>3
  <2>3. ASSUME p < Len(dec.out)
        PROVE  dec.out[p + 1] = <<m + 1, 1>> /\ SpecAt(dec, p) = r
    <3>1. p + 1 \in 1 .. o - b
      BY <1>1, <1>2, <1>4, <2>3
    <3>2. dec.out[p + 1] = Plain(file)[b + (p + 1)]
      BY <1>2, <3>1
    <3>3. dec.out[p + 1] = <<m + 1, 1>>
      BY <1>4, <2>2, <3>2
    <3>4. SpecAt(dec, p) = r
      BY <3>3 DEF SpecAt
    <3> QED BY <3>3, <3>4
  <2>4. /\ p + r.prefix <= o - b <=> E[m] + r.prefix <= o
        /\ p + r.prefix + r.body <= o - b <=> (E[m] + r.prefix) + r.body <= o
        /\ (E[m] + r.prefix) + r.body <= o => E[m] + r.prefix <= o
        /\ E[m] + r.prefix <= o => p < o - b
    <3>1. b \in Nat /\ o \in Nat /\ E[m] \in Nat /\ r.prefix \in Nat \ {0} /\ r.body \in Nat
      BY <1>1, <1>3, <2>1
    <3> HIDE DEF r, E
    <3> QED BY <3>1, Shifted, Zenon
  <2>5. PrefixAt(dec, p) <=> E[m] + r.prefix <= o
    <3>1. ASSUME PrefixAt(dec, p) PROVE E[m] + r.prefix <= o
      <4>1. p < Len(dec.out) /\ p + SpecAt(dec, p).prefix <= Len(dec.out)
        BY <3>1 DEF PrefixAt
      <4>2. p + r.prefix <= Len(dec.out)
        BY <2>3, <4>1
      <4> QED BY <1>2, <2>4, <4>2
    <3>2. ASSUME E[m] + r.prefix <= o PROVE PrefixAt(dec, p)
      <4>1. p + r.prefix <= Len(dec.out) /\ p < Len(dec.out)
        BY <1>2, <2>4, <3>2
      <4>2. dec.out[p + 1][1] = m + 1 /\ SpecAt(dec, p).prefix = r.prefix
        BY <2>3, <4>1
      <4>3. dec.out[p + 1][1] \in DOMAIN file.records
        BY <2>1, <4>2, FileTypes
      <4> QED BY <4>1, <4>2, <4>3 DEF PrefixAt
    <3> QED BY <3>1, <3>2
  <2>6. PrefixAt(dec, p) => SpecAt(dec, p) = r /\ dec.out[p + 1][2] = 1
    <3> SUFFICES ASSUME PrefixAt(dec, p) PROVE SpecAt(dec, p) = r /\ dec.out[p + 1][2] = 1
      OBVIOUS
    <3>1. p < Len(dec.out)
      BY DEF PrefixAt
    <3>2. dec.out[p + 1] = <<m + 1, 1>> /\ SpecAt(dec, p) = r
      BY <2>3, <3>1
    <3> QED BY <3>2
  <2>7. CompleteAt(dec, p) <=> Whole(m, o)
    <3>1. ASSUME PrefixAt(dec, p)
          PROVE  p + SpecAt(dec, p).prefix + SpecAt(dec, p).body <= Len(dec.out) <=> E[m + 1] <= o
      <4>1. SpecAt(dec, p) = r
        BY <2>6, <3>1
      <4>2. p + r.prefix + r.body <= Len(dec.out) <=> E[m + 1] <= o
        BY <1>2, <2>2, <2>4
      <4> QED BY <4>1, <4>2
    <3>2. CompleteAt(dec, p) => Whole(m, o)
      <4> SUFFICES ASSUME CompleteAt(dec, p) PROVE Whole(m, o)
        OBVIOUS
      <4>1. /\ PrefixAt(dec, p) /\ SpecAt(dec, p).kind = "good"
            /\ p + SpecAt(dec, p).prefix + SpecAt(dec, p).body <= Len(dec.out)
        BY DEF CompleteAt
      <4>2. SpecAt(dec, p) = r /\ E[m + 1] <= o
        BY <2>6, <3>1, <4>1
      <4> QED BY <1>6, <4>1, <4>2 DEF Whole
    <3>3. Whole(m, o) => CompleteAt(dec, p)
      <4> SUFFICES ASSUME Whole(m, o) PROVE CompleteAt(dec, p)
        OBVIOUS
      <4>1. r.kind = "good" /\ E[m + 1] <= o
        BY DEF Whole
      <4>2. E[m] + r.prefix <= o
        BY <2>2, <2>4, <4>1
      <4>3. PrefixAt(dec, p)
        BY <2>5, <4>2
      <4>4. SpecAt(dec, p) = r /\ dec.out[p + 1][2] = 1
        BY <2>6, <4>3
      <4>5. p + SpecAt(dec, p).prefix + SpecAt(dec, p).body <= Len(dec.out)
        BY <3>1, <4>1, <4>3
      <4> QED BY <4>1, <4>3, <4>4, <4>5 DEF CompleteAt
    <3> QED BY <3>2, <3>3
  <2>8. Broken(m, o) <=> E[m] + r.prefix <= o /\ r.kind # "good"
    BY <1>6 DEF Broken
  <2>9. (PrefixAt(dec, p) /\ (dec.out[p + 1][2] # 1 \/ SpecAt(dec, p).kind # "good"))
          <=> Broken(m, o)
    <3>1. ASSUME PrefixAt(dec, p)
          PROVE  (dec.out[p + 1][2] # 1 \/ SpecAt(dec, p).kind # "good") <=> r.kind # "good"
      BY <2>6, <3>1
    <3> QED BY <2>5, <2>8, <3>1
  <2> QED BY <1>4, <1>6, <2>5, <2>6, <2>7, <2>9
<1>7. m = N \/ m < N
  BY FileTypes
<1> QED BY <1>5, <1>6, <1>7

(* The record scan takes out there is the whole body, and the next one is
   where the stream says. *)
LEMMA BodyAt ==
  ASSUME file \in Files, NEW dec, NEW b, NEW n, NEW o, OutAt(dec, b, n, o),
         NEW m \in 0 .. Len(file.records), n <= m, Ends(file)[m] <= o, Whole(m, o),
         NEW p, p = Ends(file)[m] - b
  PROVE  /\ p + SpecAt(dec, p).prefix + SpecAt(dec, p).body = Ends(file)[m + 1] - b
         /\ SubSeq(dec.out, p + SpecAt(dec, p).prefix + 1,
                            p + SpecAt(dec, p).prefix + SpecAt(dec, p).body) = Body(m + 1)
<1> DEFINE N == Len(file.records)
           E == Ends(file)
           r == file.records[m + 1]
<1>1. /\ b \in Nat /\ o \in Nat /\ o <= Len(Plain(file))
      /\ n \in 0 .. N /\ dec.outPos \in Nat /\ b + dec.outPos = E[n]
  BY DEF OutAt
<1>2. /\ dec.out \in Seq(Nat \X Nat)
      /\ b <= o /\ Len(dec.out) = o - b
      /\ \A i \in 1 .. o - b : dec.out[i] = Plain(file)[b + i]
  BY OutShape
<1>3. m < N /\ E[m + 1] <= o
  BY DEF Whole
<1>4. SpecAt(dec, p) = r
  <2>1. p = Ends(file)[m] - b /\ CompleteAt(dec, Ends(file)[m] - b)
    BY AtStart
  <2>2. PrefixAt(dec, Ends(file)[m] - b)
    BY <2>1 DEF CompleteAt
  <2> QED BY <2>1, <2>2, AtStart
<1>5. /\ m + 1 \in 1 .. N /\ r.prefix \in Nat \ {0} /\ r.body \in Nat
      /\ Cells(file, m + 1) = r.prefix + r.body
      /\ E[m] \in Nat /\ p \in 0 .. Len(dec.out)
  BY <1>3, EndsSteps, FileTypes, AtStart DEF Cells
<1>6. /\ E[m + 1] = (E[m] + r.prefix) + r.body
      /\ \A j \in 1 .. Cells(file, m + 1) : Plain(file)[E[m] + j] = <<m + 1, j>>
  BY <1>3, EndsSteps
<1>7. p + r.prefix + r.body = E[m + 1] - b
  <2>1. \A e, x, y \in Nat : (e - b) + x + y = ((e + x) + y) - b
    BY <1>1
  <2>2. E[m] \in Nat /\ r.prefix \in Nat /\ r.body \in Nat
    BY <1>5
  <2>3. (E[m] - b) + r.prefix + r.body = ((E[m] + r.prefix) + r.body) - b
    BY <2>1, <2>2, Zenon
  <2> QED BY <1>6, <2>3
<1>8. SubSeq(dec.out, p + r.prefix + 1, p + r.prefix + r.body) = Body(m + 1)
  <2> DEFINE q == p + r.prefix
             cut == SubSeq(dec.out, q + 1, q + r.body)
  <2>1. q \in Nat /\ q + r.body <= Len(dec.out) /\ Len(dec.out) \in Nat
    <3>1. E[m + 1] \in Int
      BY <1>5, <1>6
    <3>2. Len(dec.out) \in Nat
      BY <1>2, LenProperties
    <3>3. q \in Nat
      BY <1>5, <3>2
    <3>4. E[m + 1] - b <= o - b
      BY <1>1, <1>3, <3>1
    <3>5. q + r.body = E[m + 1] - b
      BY <1>7
    <3> HIDE DEF q, r, E
    <3> QED BY <1>2, <3>2, <3>3, <3>4, <3>5
  <2>2. \A i \in q + 1 .. q + r.body : dec.out[i] \in Nat \X Nat
    <3> TAKE i \in q + 1 .. q + r.body
    <3>1. i \in 1 .. Len(dec.out)
      BY <1>5, <2>1
    <3> QED BY <1>2, <3>1, ElementOfSeq
  <2>3. /\ cut \in Seq(Nat \X Nat)
        /\ Len(cut) = IF q + 1 <= q + r.body THEN (q + r.body) - (q + 1) + 1 ELSE 0
        /\ \A i \in 1 .. (q + r.body) - (q + 1) + 1 : cut[i] = dec.out[q + 1 + i - 1]
    <3>1. q + 1 \in Int /\ q + r.body \in Int
      <4>1. q \in Nat /\ r.body \in Nat
        BY <1>5, <2>1
      <4> HIDE DEF q, r
      <4> QED BY <4>1
    <3> HIDE DEF q
    <3> QED BY <2>2, <3>1, SubSeqProperties
  <2>4. Len(cut) = r.body
    <3>1. \A y \in Nat : (IF q + 1 <= q + y THEN (q + y) - (q + 1) + 1 ELSE 0) = y
      <4>1. q \in Nat
        BY <2>1
      <4> HIDE DEF q
      <4> QED BY <4>1
    <3>2. r.body \in Nat
      BY <1>5
    <3> HIDE DEF q, cut, r
    <3> QED BY <2>3, <3>1, <3>2
  <2>5. ASSUME NEW i \in 1 .. r.body PROVE cut[i] = <<m + 1, r.prefix + i>>
    <3>1. i \in 1 .. (q + r.body) - (q + 1) + 1 /\ q + 1 + i - 1 = q + i
      <4> HIDE DEF q
      <4> QED BY <1>5, <2>1
    <3>2. cut[i] = dec.out[q + i]
      <4> HIDE DEF q, cut
      <4> QED BY <2>3, <3>1
    <3>3. q + i \in 1 .. o - b
      <4>1. q \in Nat /\ r.body \in Nat /\ i \in Nat \ {0} /\ i <= r.body
        BY <1>5, <2>1
      <4>2. q + r.body <= o - b /\ o - b \in Int
        BY <1>1, <1>2, <2>1
      <4> HIDE DEF q, r
      <4> QED BY <4>1, <4>2
    <3>4. dec.out[q + i] = Plain(file)[b + (q + i)]
      BY <1>2, <3>3
    <3>5. b + (q + i) = E[m] + (r.prefix + i)
      <4>1. \A e, x \in Nat : b + (((e - b) + x) + i) = e + (x + i)
        BY <1>1, <1>5
      <4> QED BY <1>5, <4>1
    <3>6. r.prefix + i \in 1 .. Cells(file, m + 1)
      BY <1>5
    <3>7. Plain(file)[E[m] + (r.prefix + i)] = <<m + 1, r.prefix + i>>
      BY <1>6, <3>6
    <3> HIDE DEF q, cut
    <3> QED BY <3>2, <3>4, <3>5, <3>7
  <2>6. /\ Body(m + 1) \in Seq(Nat \X Nat) /\ Len(Body(m + 1)) = r.body
        /\ \A i \in 1 .. r.body : Body(m + 1)[i] = <<m + 1, r.prefix + i>>
    <3>1. Body(m + 1) = [j \in 1 .. r.body |-> <<m + 1, r.prefix + j>>]
      BY DEF Body
    <3>2. Body(m + 1) \in [1 .. r.body -> Nat \X Nat]
      <4>1. m + 1 \in Nat /\ r.prefix \in Nat
        BY <1>5
      <4>2. \A j \in 1 .. r.body : <<m + 1, r.prefix + j>> \in Nat \X Nat
        <5> HIDE DEF r
        <5> QED BY <4>1
      <4> HIDE DEF r
      <4> QED BY <3>1, <4>2
    <3>3. r.body \in Nat
      BY <1>5
    <3>4. Body(m + 1) \in Seq(Nat \X Nat)
      BY <3>2, <3>3, IsASeq
    <3>5. Len(Body(m + 1)) = r.body
      <4>1. DOMAIN Body(m + 1) = 1 .. r.body
        BY <3>1
      <4>2. DOMAIN Body(m + 1) = 1 .. Len(Body(m + 1)) /\ Len(Body(m + 1)) \in Nat
        BY <3>4, LenProperties
      <4> HIDE DEF r
      <4> QED BY <3>3, <4>1, <4>2
    <3>6. \A i \in 1 .. r.body : Body(m + 1)[i] = <<m + 1, r.prefix + i>>
      BY <3>1
    <3> HIDE DEF r
    <3> QED BY <3>4, <3>5, <3>6
  <2>7. cut = Body(m + 1)
    <3>1. cut \in Seq(Nat \X Nat) /\ Len(cut) = r.body
      BY <2>3, <2>4
    <3> HIDE DEF cut, q, r
    <3>2. Len(cut) = Len(Body(m + 1)) /\ \A i \in 1 .. Len(cut) : cut[i] = Body(m + 1)[i]
      BY <3>1, <2>5, <2>6
    <3> QED BY <2>6, <3>1, <3>2, SeqEqual
  <2> QED BY <2>7
<1> QED BY <1>4, <1>7, <1>8

(* The two recursions of scan have a solution, whatever is in the buffer. *)
LEMMA ScanSolves ==
  ASSUME file \in Files, NEW dec, Len(dec.out) \in Nat
  PROVE  \E g, h :
           /\ Found(dec) = g[dec.outPos] /\ ScanEnd(dec) = h[dec.outPos]
           /\ \A p \in 0 .. Len(dec.out) :
                /\ ~CompleteAt(dec, p) => g[p] = <<>> /\ h[p] = p
                /\ CompleteAt(dec, p) =>
                     /\ g[p] = <<SubSeq(dec.out, p + SpecAt(dec, p).prefix + 1,
                                        p + SpecAt(dec, p).prefix + SpecAt(dec, p).body)>>
                                 \o g[p + SpecAt(dec, p).prefix + SpecAt(dec, p).body]
                     /\ h[p] = h[p + SpecAt(dec, p).prefix + SpecAt(dec, p).body]
<1> DEFINE L == Len(dec.out)
           C == {p \in 0 .. L : CompleteAt(dec, p)}
           start(p) == p + SpecAt(dec, p).prefix
           end(p) == start(p) + SpecAt(dec, p).body
           nx == [p \in 0 .. L |-> end(p)]
           v == [p \in 0 .. L |-> SubSeq(dec.out, start(p) + 1, end(p))]
           SolvesG(g) == g = [p \in 0 .. L |-> IF ~CompleteAt(dec, p) THEN <<>>
                                ELSE <<SubSeq(dec.out, start(p) + 1, end(p))>> \o g[end(p)]]
           SolvesH(h) == h = [p \in 0 .. L |-> IF ~CompleteAt(dec, p) THEN p ELSE h[end(p)]]
           g == CHOOSE from : SolvesG(from)
           h == CHOOSE from : SolvesH(from)
<1>1. Found(dec) = g[dec.outPos]
  BY DEF Found
<1>2. ScanEnd(dec) = h[dec.outPos]
  BY DEF ScanEnd
<1>3. \A p \in 0 .. L : p \in C => nx[p] \in p + 1 .. L
  BY CompleteAdvances
<1>4. /\ \E from : from = [p \in 0 .. L |-> IF p \notin C THEN <<>> ELSE <<v[p]>> \o from[nx[p]]]
      /\ \E from : from = [p \in 0 .. L |-> IF p \notin C THEN p ELSE from[nx[p]]]
  <2>1. L \in Nat
    OBVIOUS
  <2> HIDE DEF L, C, nx, v
  <2>2. (\E from : Gathers(L, C, nx, v, from)) /\ (\E from : Seeks(L, C, nx, from))
    BY <1>3, <2>1, Chain
  <2> QED BY <2>2 DEF Gathers, Seeks
<1>5. \A p \in 0 .. L : (p \in C <=> CompleteAt(dec, p)) /\ nx[p] = end(p)
                        /\ v[p] = SubSeq(dec.out, start(p) + 1, end(p))
  OBVIOUS
<1> HIDE DEF C, nx, v, start, end
<1>6. \E from : SolvesG(from)
  BY <1>4, <1>5
<1>7. \E from : SolvesH(from)
  BY <1>4, <1>5
<1>8. SolvesG(g) /\ SolvesH(h)
  <2> HIDE DEF SolvesG, SolvesH
  <2> QED BY <1>6, <1>7
<1> HIDE DEF g, h
<1>9. \A p \in 0 .. L :
        /\ ~CompleteAt(dec, p) => g[p] = <<>> /\ h[p] = p
        /\ CompleteAt(dec, p) =>
             /\ g[p] = <<SubSeq(dec.out, start(p) + 1, end(p))>> \o g[end(p)]
             /\ h[p] = h[end(p)]
  <2> TAKE p \in 0 .. L
  <2>1. g[p] = IF ~CompleteAt(dec, p) THEN <<>>
               ELSE <<SubSeq(dec.out, start(p) + 1, end(p))>> \o g[end(p)]
    BY <1>8
  <2>2. h[p] = IF ~CompleteAt(dec, p) THEN p ELSE h[end(p)]
    BY <1>8
  <2> QED BY <2>1, <2>2
<1>10. \A p \in 0 .. L :
        /\ ~CompleteAt(dec, p) => g[p] = <<>> /\ h[p] = p
        /\ CompleteAt(dec, p) =>
             /\ g[p] = <<SubSeq(dec.out, p + SpecAt(dec, p).prefix + 1,
                                p + SpecAt(dec, p).prefix + SpecAt(dec, p).body)>>
                         \o g[p + SpecAt(dec, p).prefix + SpecAt(dec, p).body]
             /\ h[p] = h[p + SpecAt(dec, p).prefix + SpecAt(dec, p).body]
  BY <1>9 DEF start, end
<1> QED BY <1>1, <1>2, <1>10

(* All the records, good or not. *)
Bodies == [i \in 1 .. Len(file.records) |-> Body(i)]

LEMMA BodiesType ==
  ASSUME file \in Files
  PROVE  /\ Bodies \in Seq(Seq(Nat \X Nat))
         /\ Len(Bodies) = Len(file.records)
         /\ \A i \in 1 .. Len(file.records) : Bodies[i] = Body(i)
<1> DEFINE N == Len(file.records)
<1>1. N \in Nat
  BY FileTypes
<1>2. \A i \in 1 .. N : Body(i) \in Seq(Nat \X Nat)
  <2> TAKE i \in 1 .. N
  <2>1. file.records[i].prefix \in Nat /\ file.records[i].body \in Nat /\ i \in Nat
    BY <1>1, FileTypes
  <2>2. Body(i) \in [1 .. file.records[i].body -> Nat \X Nat]
    BY <2>1 DEF Body
  <2> QED BY <2>1, <2>2, IsASeq
<1>3. Bodies \in [1 .. N -> Seq(Nat \X Nat)]
  BY <1>2 DEF Bodies
<1>4. Bodies \in Seq(Seq(Nat \X Nat))
  BY <1>1, <1>3, IsASeq
<1>5. Len(Bodies) = N
  <2>1. DOMAIN Bodies = 1 .. N
    BY DEF Bodies
  <2>2. DOMAIN Bodies = 1 .. Len(Bodies) /\ Len(Bodies) \in Nat
    BY <1>4, LenProperties
  <2> HIDE DEF N
  <2> QED BY <1>1, <2>1, <2>2
<1>6. \A i \in 1 .. N : Bodies[i] = Body(i)
  BY DEF Bodies
<1> QED BY <1>4, <1>5, <1>6

(* scan takes out every whole record from where it stands, stops at the first
   that is not, and fails if that one is broken. *)
LEMMA ScanFrom ==
  ASSUME file \in Files, NEW dec, NEW b, NEW n, NEW o, OutAt(dec, b, n, o)
  PROVE  \E m \in n .. Len(file.records) :
           /\ Ends(file)[m] <= o
           /\ \A k \in n .. m - 1 : Whole(k, o)
           /\ ~Whole(m, o)
           /\ ScanEnd(dec) = Ends(file)[m] - b
           /\ Found(dec) = SubSeq(Bodies, n + 1, m)
           /\ ScanFails(dec) <=> Broken(m, o)
<1> DEFINE N == Len(file.records)
           E == Ends(file)
           T == {k \in n .. N : ~Whole(k, o)}
<1>1. N \in Nat /\ n \in 0 .. N /\ o \in Nat /\ dec.outPos = E[n] - b /\ E[n] <= o
  <2>1. /\ n \in 0 .. N /\ o \in Nat /\ b + dec.outPos = E[n] /\ E[n] <= o
        /\ b \in Nat /\ dec.outPos \in Nat
    BY DEF OutAt
  <2> QED BY <2>1, FileTypes
<1>2. T \in SUBSET Nat /\ T # {}
  <2>1. ~Whole(N, o)
    BY <1>1 DEF Whole
  <2> QED BY <1>1, <2>1
<1>3. PICK m \in T : \A k \in T : m <= k
  <2> HIDE DEF T
  <2> QED BY <1>2, LeastNat
<1>4. m \in n .. N /\ m \in 0 .. N /\ ~Whole(m, o) /\ n <= m
  BY <1>1
<1>5. \A k \in n .. m - 1 : Whole(k, o)
  <2> TAKE k \in n .. m - 1
  <2>1. k \in n .. N /\ ~(m <= k)
    BY <1>1, <1>4
  <2> QED BY <1>3, <2>1
<1>6. E[m] <= o
  <2>1. CASE m = n
    BY <1>1, <2>1
  <2>2. CASE m # n
    <3>1. m - 1 \in n .. m - 1 /\ (m - 1) + 1 = m
      BY <1>1, <1>4, <2>2
    <3>2. Whole(m - 1, o)
      BY <1>5, <3>1
    <3> QED BY <3>1, <3>2 DEF Whole
  <2> QED BY <2>1, <2>2
<1> HIDE DEF T
<1>7. Len(dec.out) \in Nat
  BY OutShape, LenProperties
<1>8. PICK g, h :
        /\ Found(dec) = g[dec.outPos] /\ ScanEnd(dec) = h[dec.outPos]
        /\ \A p \in 0 .. Len(dec.out) :
             /\ ~CompleteAt(dec, p) => g[p] = <<>> /\ h[p] = p
             /\ CompleteAt(dec, p) =>
                  /\ g[p] = <<SubSeq(dec.out, p + SpecAt(dec, p).prefix + 1,
                                     p + SpecAt(dec, p).prefix + SpecAt(dec, p).body)>>
                              \o g[p + SpecAt(dec, p).prefix + SpecAt(dec, p).body]
                  /\ h[p] = h[p + SpecAt(dec, p).prefix + SpecAt(dec, p).body]
  BY <1>7, ScanSolves
<1> DEFINE Q(k) == /\ E[k] <= o
                   /\ g[E[k] - b] = SubSeq(Bodies, k + 1, m)
                   /\ h[E[k] - b] = E[m] - b
           D == {j \in 0 .. m - n : Q(m - j)}
<1>9. 0 \in D
  <2>1. E[m] - b \in 0 .. Len(dec.out) /\ ~CompleteAt(dec, E[m] - b)
    BY <1>4, <1>6, AtStart
  <2>2. g[E[m] - b] = <<>> /\ h[E[m] - b] = E[m] - b
    BY <1>8, <2>1
  <2>3. SubSeq(Bodies, m + 1, m) = <<>>
    BY <1>1, <1>4, SubSeqEmpty
  <2>4. Q(m)
    BY <1>6, <2>2, <2>3
  <2>5. m - 0 = m /\ 0 \in 0 .. m - n
    BY <1>1, <1>4
  <2> HIDE DEF Q
  <2> QED BY <2>4, <2>5
<1>10. \A j \in 0 .. m - n : j \in D /\ j < m - n => j + 1 \in D
  <2> SUFFICES ASSUME NEW j \in 0 .. m - n, j \in D, j < m - n PROVE j + 1 \in D
    OBVIOUS
  <2> DEFINE k == m - (j + 1)
             p == E[k] - b
  <2>1. /\ k \in 0 .. N /\ k + 1 = m - j /\ n <= k /\ k < m /\ k \in n .. m - 1
        /\ k + 1 \in 0 .. N /\ k + 1 \in 1 .. N
    BY <1>1, <1>4
  <2>2. Q(k + 1)
    <3> HIDE DEF Q
    <3>1. Q(m - j)
      OBVIOUS
    <3> QED BY <2>1, <3>1
  <2> HIDE DEF k
  <2>3. E[k] <= o
    <3>1. E[k] < E[k + 1]
      BY <2>1, PlainShape
    <3>2. E[k] \in Nat /\ E[k + 1] \in Nat
      BY <2>1, EndsSteps
    <3> QED BY <1>1, <2>2, <3>1, <3>2
  <2>4. Whole(k, o)
    BY <1>5, <2>1
  <2>5. p \in 0 .. Len(dec.out) /\ CompleteAt(dec, p)
    BY <2>1, <2>3, <2>4, AtStart
  <2>6. /\ p + SpecAt(dec, p).prefix + SpecAt(dec, p).body = E[k + 1] - b
        /\ SubSeq(dec.out, p + SpecAt(dec, p).prefix + 1,
                           p + SpecAt(dec, p).prefix + SpecAt(dec, p).body) = Body(k + 1)
    BY <2>1, <2>3, <2>4, BodyAt
  <2>7. /\ g[p] = <<Body(k + 1)>> \o g[E[k + 1] - b]
        /\ h[p] = h[E[k + 1] - b]
    BY <1>8, <2>5, <2>6
  <2>8. SubSeq(Bodies, k + 1, m) = <<Bodies[k + 1]>> \o SubSeq(Bodies, (k + 1) + 1, m)
    <3>1. k + 1 \in 1 .. Len(Bodies) /\ m \in k + 1 .. Len(Bodies)
      BY <1>1, <1>4, <2>1, BodiesType
    <3> QED BY <3>1, BodiesType, SubSeqRecursiveFirst
  <2>9. Bodies[k + 1] = Body(k + 1)
    BY <2>1, BodiesType
  <2>10. Q(k)
    BY <2>2, <2>3, <2>7, <2>8, <2>9
  <2>11. j + 1 \in 0 .. m - n /\ k = m - (j + 1)
    BY <1>1, <1>4 DEF k
  <2> HIDE DEF Q, p
  <2> QED BY <2>10, <2>11
<1>11. m - n \in D
  <2>1. m - n \in Nat /\ m - n \in 0 .. m - n
    BY <1>1, <1>4
  <2>2. 0 .. m - n \subseteq D
    <3> HIDE DEF D
    <3> QED BY <1>9, <1>10, <2>1, CountingUp
  <2> HIDE DEF D
  <2> QED BY <2>1, <2>2
<1>12. Q(n)
  <2>1. m - (m - n) = n
    BY <1>1, <1>4
  <2>2. Q(m - (m - n))
    <3> HIDE DEF Q
    <3> QED BY <1>11
  <2> HIDE DEF Q
  <2> QED BY <2>1, <2>2
<1>13. ScanEnd(dec) = E[m] - b /\ Found(dec) = SubSeq(Bodies, n + 1, m)
  BY <1>1, <1>8, <1>12
<1>14. ScanFails(dec) <=> Broken(m, o)
  <2>1. ScanFails(dec) <=>
          /\ PrefixAt(dec, E[m] - b)
          /\ \/ dec.out[E[m] - b + 1][2] # 1
             \/ SpecAt(dec, E[m] - b).kind # "good"
    BY <1>13 DEF ScanFails
  <2> QED BY <1>4, <1>6, <2>1, AtStart
<1> QED BY <1>4, <1>5, <1>6, <1>13, <1>14

-----------------------------------------------------------------------------
(***************************************************************************)
(* The compressed file.                                                    *)
(***************************************************************************)
(* A piece of a piece of a sequence. *)
LEMMA SubSub ==
  ASSUME NEW S, NEW s \in Seq(S), NEW b \in Nat, NEW o \in Nat, b <= o, o <= Len(s),
         NEW i \in Nat, NEW k \in Nat, i <= k, k <= o - b
  PROVE  SubSeq(SubSeq(s, b + 1, o), i + 1, k) = SubSeq(s, (b + i) + 1, b + k)
<1>1. CASE i = k
  <2>1. SubSeq(SubSeq(s, b + 1, o), i + 1, k) = <<>>
    BY <1>1, SubSeqEmpty
  <2>2. SubSeq(s, (b + i) + 1, b + k) = <<>>
    <3>1. (b + i) + 1 \in Int /\ b + k \in Int /\ b + k < (b + i) + 1
      BY <1>1
    <3> QED BY <3>1, SubSeqEmpty
  <2> QED BY <2>1, <2>2
<1>2. CASE i < k
  <2>1. /\ b + 1 \in 1 .. Len(s) /\ o \in 1 .. Len(s)
        /\ i + 1 \in 1 .. o - (b + 1) + 1 /\ k \in 1 .. o - (b + 1) + 1
    BY <1>2, LenProperties
  <2>2. SubSeq(SubSeq(s, b + 1, o), i + 1, k) = SubSeq(s, (b + 1) + (i + 1) - 1, (b + 1) + k - 1)
    BY <2>1, SubSeqOfSubSeq
  <2>3. (b + 1) + (i + 1) - 1 = (b + i) + 1 /\ (b + 1) + k - 1 = b + k
    OBVIOUS
  <2> QED BY <2>2, <2>3
<1> QED BY <1>1, <1>2

(* The cells of a file, on disk. *)
LEMMA DiskShape ==
  ASSUME NEW f \in Files
  PROVE  /\ Disk(f) \in Seq(Nat \X Nat)
         /\ DiskLen(f) \in Nat /\ Len(Disk(f)) = DiskLen(f)
         /\ DiskLen(f) >= MagicLen
         /\ ~f.zstd => Disk(f) = Plain(f) /\ DiskLen(f) = Len(Plain(f))
         /\ Disk(f)[1] = <<0, 1>> <=> f.zstd
<1>0. MagicLen \in Nat \ {0} /\ MinHeader \in Nat /\ MagicLen <= MinHeader
  BY SizesAssumption
<1>1. CASE f.zstd
  <2>1. f.blocks # <<>> /\ DiskLen(f) >= MinHeader /\ f.blocks \in Seq(BlockSpec)
    BY <1>1, FilesAssumption DEF File
  <2>2. Len(f.blocks) \in Nat \ {0}
    BY <2>1, EmptySeq, LenProperties
  <2>3. DiskLen(f) \in Nat
    <3>1. f.blocks[Len(f.blocks)].disk \in Nat
      BY <2>2, FileTypes
    <3> QED BY <1>1, <3>1 DEF DiskLen
  <2>4. Disk(f) = [j \in 1 .. DiskLen(f) |-> <<0, j>>]
    BY <1>1 DEF Disk
  <2>5. Disk(f) \in [1 .. DiskLen(f) -> Nat \X Nat]
    BY <2>3, <2>4
  <2>6. Disk(f) \in Seq(Nat \X Nat)
    BY <2>3, <2>5, IsASeq
  <2>7. Len(Disk(f)) = DiskLen(f)
    <3>1. DOMAIN Disk(f) = 1 .. DiskLen(f)
      BY <2>4
    <3>2. DOMAIN Disk(f) = 1 .. Len(Disk(f)) /\ Len(Disk(f)) \in Nat
      BY <2>6, LenProperties
    <3> QED BY <2>3, <3>1, <3>2
  <2>8. DiskLen(f) >= MagicLen
    BY <1>0, <2>1, <2>3
  <2>9. Disk(f)[1] = <<0, 1>>
    <3>1. 1 \in 1 .. DiskLen(f)
      BY <1>0, <2>3, <2>8
    <3> QED BY <2>4, <3>1
  <2> QED BY <1>1, <2>3, <2>6, <2>7, <2>8, <2>9
<1>2. CASE ~f.zstd
  <2>1. Disk(f) = Plain(f) /\ DiskLen(f) = Len(Plain(f))
    BY <1>2 DEF Disk, DiskLen
  <2>2. Plain(f) \in Seq(Nat \X Nat) /\ Len(Plain(f)) \in Nat
    BY EndsSteps
  <2>3. Len(Plain(f)) >= MagicLen
    <3>1. 1 \in 0 .. Len(f.records)
      BY FileTypes
    <3>2. Ends(f)[1] <= Len(Plain(f)) /\ Ends(f)[1] >= MagicLen /\ Ends(f)[1] \in Nat
      BY <3>1, EndsSteps
    <3> QED BY <1>0, <2>2, <3>2
  <2>4. Plain(f)[1] = <<1, 1>>
    <3>1. 0 \in 0 .. Len(f.records) /\ 0 < Len(f.records) /\ 1 \in 1 .. Len(f.records)
      BY FileTypes
    <3>2. \A j \in 1 .. Cells(f, 0 + 1) : Plain(f)[Ends(f)[0] + j] = <<0 + 1, j>>
      BY <3>1, EndsSteps
    <3>3. 1 \in 1 .. Cells(f, 1)
      <4>1. Cells(f, 1) \in Nat \ {0}
        BY <3>1, FileTypes
      <4> QED BY <4>1
    <3>4. Plain(f)[Ends(f)[0] + 1] = <<1, 1>>
      BY <3>2, <3>3
    <3>5. Ends(f)[0] = 0
      BY EndsSteps
    <3> QED BY <3>4, <3>5
  <2>5. <<1, 1>> # <<0, 1>>
    OBVIOUS
  <2> QED BY <1>2, <2>1, <2>2, <2>3, <2>4, <2>5
<1> QED BY <1>1, <1>2

(* Numbers that do not fall from each to the next do not fall at all. *)
LEMMA NotFalling ==
  ASSUME NEW n \in Nat, NEW e \in [1 .. n -> Nat],
         \A k \in 1 .. n : k < n => e[k] <= e[k + 1]
  PROVE  \A i, k \in 1 .. n : i <= k => e[i] <= e[k]
<1> SUFFICES ASSUME NEW i \in 1 .. n PROVE \A k \in 1 .. n : i <= k => e[i] <= e[k]
  OBVIOUS
<1> DEFINE T == {k \in 0 .. n : k # 0 /\ i <= k => e[i] <= e[k]}
<1>1. 0 \in T
  OBVIOUS
<1>2. \A k \in 0 .. n : k \in T /\ k < n => k + 1 \in T
  <2> SUFFICES ASSUME NEW k \in 0 .. n, k \in T, k < n, i <= k + 1 PROVE e[i] <= e[k + 1]
    OBVIOUS
  <2>1. e[i] \in Nat /\ e[k + 1] \in Nat
    OBVIOUS
  <2>2. CASE i = k + 1
    BY <2>1, <2>2
  <2>3. CASE i <= k
    <3>1. k \in 1 .. n
      BY <2>3
    <3>2. e[k] <= e[k + 1] /\ e[i] <= e[k] /\ e[k] \in Nat
      BY <2>3, <3>1
    <3> QED BY <2>1, <3>2
  <2> QED BY <2>2, <2>3
<1>3. 0 .. n \subseteq T
  <2> HIDE DEF T
  <2> QED BY <1>1, <1>2, CountingUp
<1> QED BY <1>3

(* The blocks of a compressed file. *)
LEMMA BlockShape ==
  ASSUME NEW f \in Files, f.zstd
  PROVE  /\ Len(f.blocks) \in Nat \ {0}
         /\ DiskLen(f) = f.blocks[Len(f.blocks)].disk
         /\ Len(Plain(f)) = f.blocks[Len(f.blocks)].plain
         /\ \A i \in 1 .. Len(f.blocks) :
              /\ f.blocks[i].disk \in Nat \ {0} /\ f.blocks[i].disk <= DiskLen(f)
              /\ f.blocks[i].plain \in Nat /\ f.blocks[i].plain <= Len(Plain(f))
         /\ f.blocks[1].disk <= MinDecodeInput
         /\ \A i \in 1 .. Len(f.blocks) : i < Len(f.blocks) =>
              f.blocks[i + 1].disk <= f.blocks[i].disk + MinDecodeInput
         /\ f.corrupt \in 0 .. Len(f.blocks)
<1> DEFINE B == Len(f.blocks)
<1>1. /\ f.blocks # <<>> /\ f.corrupt \in 0 .. B /\ f.blocks \in Seq(BlockSpec)
      /\ f.blocks[1].disk > HeaderLen /\ f.blocks[1].disk <= MinDecodeInput
      /\ f.blocks[B].plain = Len(Plain(f))
      /\ \A b \in 1 .. B - 1 :
           /\ f.blocks[b].disk < f.blocks[b + 1].disk
           /\ f.blocks[b + 1].disk <= f.blocks[b].disk + MinDecodeInput
           /\ f.blocks[b].plain <= f.blocks[b + 1].plain
  BY FilesAssumption DEF File
<1>2. B \in Nat \ {0}
  BY <1>1, EmptySeq, LenProperties
<1>3. DiskLen(f) = f.blocks[B].disk
  BY DEF DiskLen
<1>4. \A i \in 1 .. B : f.blocks[i].disk \in Nat /\ f.blocks[i].plain \in Nat
  BY FileTypes
<1>5. \A i \in 1 .. B : i < B =>
        /\ f.blocks[i].disk < f.blocks[i + 1].disk
        /\ f.blocks[i + 1].disk <= f.blocks[i].disk + MinDecodeInput
        /\ f.blocks[i].plain <= f.blocks[i + 1].plain
  <2> SUFFICES ASSUME NEW i \in 1 .. B, i < B PROVE i \in 1 .. B - 1
    BY <1>1
  <2> QED BY <1>2
<1> DEFINE disk == [i \in 1 .. B |-> f.blocks[i].disk]
           plain == [i \in 1 .. B |-> f.blocks[i].plain]
<1>6. \A i, k \in 1 .. B : i <= k => f.blocks[i].disk <= f.blocks[k].disk
  <2>1. disk \in [1 .. B -> Nat]
    BY <1>4
  <2>2. \A k \in 1 .. B : k < B => disk[k] <= disk[k + 1]
    <3> SUFFICES ASSUME NEW k \in 1 .. B, k < B PROVE disk[k] <= disk[k + 1]
      OBVIOUS
    <3>1. k + 1 \in 1 .. B
      BY <1>2
    <3>2. f.blocks[k].disk < f.blocks[k + 1].disk
          /\ f.blocks[k].disk \in Nat /\ f.blocks[k + 1].disk \in Nat
      BY <1>4, <1>5, <3>1
    <3> QED BY <3>1, <3>2
  <2>3. \A i, k \in 1 .. B : i <= k => disk[i] <= disk[k]
    <3> HIDE DEF disk
    <3> QED BY <1>2, <2>1, <2>2, NotFalling
  <2> QED BY <2>3
<1>7. \A i, k \in 1 .. B : i <= k => f.blocks[i].plain <= f.blocks[k].plain
  <2>1. plain \in [1 .. B -> Nat]
    BY <1>4
  <2>2. \A k \in 1 .. B : k < B => plain[k] <= plain[k + 1]
    <3> SUFFICES ASSUME NEW k \in 1 .. B, k < B PROVE plain[k] <= plain[k + 1]
      OBVIOUS
    <3>1. k + 1 \in 1 .. B
      BY <1>2
    <3> QED BY <1>5, <3>1
  <2>3. \A i, k \in 1 .. B : i <= k => plain[i] <= plain[k]
    <3> HIDE DEF plain
    <3> QED BY <1>2, <2>1, <2>2, NotFalling
  <2> QED BY <2>3
<1>8. ASSUME NEW i \in 1 .. B
      PROVE  /\ f.blocks[i].disk \in Nat \ {0} /\ f.blocks[i].disk <= DiskLen(f)
             /\ f.blocks[i].plain \in Nat /\ f.blocks[i].plain <= Len(Plain(f))
  <2>1. 1 \in 1 .. B /\ B \in 1 .. B /\ 1 <= i /\ i <= B
    BY <1>2
  <2>2. f.blocks[1].disk <= f.blocks[i].disk /\ f.blocks[i].disk <= f.blocks[B].disk
    BY <1>6, <2>1
  <2>3. f.blocks[i].plain <= f.blocks[B].plain
    BY <1>7, <2>1
  <2>4. f.blocks[1].disk > 0 /\ f.blocks[1].disk \in Nat
    <3>1. HeaderLen \in Nat
      BY SizesAssumption
    <3>2. f.blocks[1].disk \in Nat
      BY <1>4, <2>1
    <3> QED BY <1>1, <3>1, <3>2
  <2> QED BY <1>1, <1>3, <1>4, <2>2, <2>3, <2>4
<1> QED BY <1>1, <1>2, <1>3, <1>5, <1>8

(* What the first n cells of a compressed file yield. *)
Yields(f, n) == {0} \cup {b.plain : b \in {b \in Range(f.blocks) : b.disk <= n}}

LEMMA YieldsAre ==
  ASSUME NEW f \in Files, f.zstd, NEW n \in Nat
  PROVE  /\ Yields(f, n) \subseteq 0 .. Len(Plain(f))
         /\ \A y : y \in Yields(f, n) <=>
              \/ y = 0
              \/ \E i \in 1 .. Len(f.blocks) : f.blocks[i].disk <= n /\ y = f.blocks[i].plain
<1>1. DOMAIN f.blocks = 1 .. Len(f.blocks) /\ Len(Plain(f)) \in Nat
  BY FileTypes, EndsSteps
<1>2. ASSUME NEW y
      PROVE  y \in Yields(f, n) <=>
               \/ y = 0
               \/ \E i \in 1 .. Len(f.blocks) : f.blocks[i].disk <= n /\ y = f.blocks[i].plain
  BY <1>1 DEF Yields, Range
<1>3. ASSUME NEW y \in Yields(f, n) PROVE y \in 0 .. Len(Plain(f))
  <2>1. CASE y = 0
    BY <1>1, <2>1
  <2>2. CASE \E i \in 1 .. Len(f.blocks) : f.blocks[i].disk <= n /\ y = f.blocks[i].plain
    <3>1. PICK i \in 1 .. Len(f.blocks) : y = f.blocks[i].plain
      BY <2>2
    <3>2. f.blocks[i].plain \in Nat /\ f.blocks[i].plain <= Len(Plain(f))
      BY BlockShape
    <3> QED BY <1>1, <3>1, <3>2
  <2> QED BY <1>2, <2>1, <2>2
<1> QED BY <1>2, <1>3

LEMMA YieldShape ==
  ASSUME NEW f \in Files, f.zstd, NEW n \in Nat
  PROVE  /\ Yield(f, n) \in 0 .. Len(Plain(f))
         /\ Yield(f, n) \in Yields(f, n)
         /\ \A y \in Yields(f, n) : y <= Yield(f, n)
<1>1. Yields(f, n) \subseteq 0 .. Len(Plain(f)) /\ 0 \in Yields(f, n) /\ Len(Plain(f)) \in Nat
  BY YieldsAre, EndsSteps
<1>2. Yield(f, n) = Max(Yields(f, n))
  BY DEF Yield, Yields
<1>3. Max(Yields(f, n)) \in Yields(f, n) /\ \A y \in Yields(f, n) : y <= Max(Yields(f, n))
  BY <1>1, MaxNat
<1> QED BY <1>1, <1>2, <1>3

(* More cells yield no less; those up to the same block yield the same. *)
LEMMA YieldGrows ==
  ASSUME NEW f \in Files, f.zstd, NEW n \in Nat, NEW k \in Nat, n <= k
  PROVE  /\ Yield(f, n) <= Yield(f, k)
         /\ (\A i \in 1 .. Len(f.blocks) : f.blocks[i].disk <= k => f.blocks[i].disk <= n)
              => Yield(f, k) = Yield(f, n)
<1>1. Yield(f, n) \in Nat /\ Yield(f, k) \in Nat
  BY YieldShape
<1>2. Yields(f, n) \subseteq Yields(f, k)
  <2> SUFFICES ASSUME NEW y \in Yields(f, n), y # 0 PROVE y \in Yields(f, k)
    BY YieldsAre
  <2>1. PICK i \in 1 .. Len(f.blocks) : f.blocks[i].disk <= n /\ y = f.blocks[i].plain
    BY YieldsAre
  <2>2. f.blocks[i].disk \in Nat
    BY FileTypes
  <2>3. f.blocks[i].disk <= k
    BY <2>1, <2>2
  <2> QED BY <2>1, <2>3, YieldsAre
<1>3. Yield(f, n) <= Yield(f, k)
  BY <1>2, YieldShape
<1>4. ASSUME \A i \in 1 .. Len(f.blocks) : f.blocks[i].disk <= k => f.blocks[i].disk <= n
      PROVE  Yield(f, k) = Yield(f, n)
  <2>1. Yield(f, k) \in Yields(f, n)
    <3>1. Yield(f, k) = 0 \/ \E i \in 1 .. Len(f.blocks) :
                               f.blocks[i].disk <= k /\ Yield(f, k) = f.blocks[i].plain
      BY YieldShape, YieldsAre
    <3> QED BY <1>4, <3>1, YieldsAre
  <2>2. Yield(f, k) <= Yield(f, n)
    BY <2>1, YieldShape
  <2> QED BY <1>1, <1>3, <2>2
<1> QED BY <1>3, <1>4

(* Nothing yields nothing, and the whole file the whole stream. *)
LEMMA YieldEnds ==
  ASSUME NEW f \in Files, f.zstd
  PROVE  Yield(f, 0) = 0 /\ Yield(f, DiskLen(f)) = Len(Plain(f))
<1>1. /\ Len(f.blocks) \in Nat \ {0}
      /\ DiskLen(f) = f.blocks[Len(f.blocks)].disk
      /\ Len(Plain(f)) = f.blocks[Len(f.blocks)].plain
      /\ \A i \in 1 .. Len(f.blocks) : f.blocks[i].disk \in Nat \ {0}
  BY BlockShape
<1>2. Yield(f, 0) = 0
  <2>1. Yield(f, 0) = 0 \/ \E i \in 1 .. Len(f.blocks) : f.blocks[i].disk <= 0
    BY YieldShape, YieldsAre
  <2> QED BY <1>1, <2>1
<1>3. Yield(f, DiskLen(f)) = Len(Plain(f))
  <2>1. Len(f.blocks) \in 1 .. Len(f.blocks) /\ DiskLen(f) \in Nat
    BY <1>1
  <2>2. DiskLen(f) <= DiskLen(f)
    BY <2>1
  <2>3. Len(Plain(f)) \in Yields(f, DiskLen(f))
    BY <1>1, <2>1, <2>2, YieldsAre
  <2>4. Len(Plain(f)) <= Yield(f, DiskLen(f)) /\ Yield(f, DiskLen(f)) \in 0 .. Len(Plain(f))
    BY <2>1, <2>3, YieldShape
  <2>5. Len(Plain(f)) \in Nat
    BY EndsSteps
  <2> QED BY <2>4, <2>5
<1> QED BY <1>2, <1>3

(* The places where the zstd decoder can stop, from r on. *)
Stops(f, r) == {r, HeaderLen} \cup {b.disk : b \in Range(f.blocks)}

(* Where it stops when it is given the first n cells: no block ends between
   there and n, and less than MIN_DECODE_INPUT is left. *)
LEMMA StopShape ==
  ASSUME NEW f \in Files, f.zstd, NEW r \in Nat, NEW n \in Nat, r <= n, n <= DiskLen(f)
  PROVE  LET q == Max({k \in Stops(f, r) : k <= n}) IN
           /\ q \in Nat /\ r <= q /\ q <= n
           /\ \A i \in 1 .. Len(f.blocks) : f.blocks[i].disk <= n => f.blocks[i].disk <= q
           /\ Yield(f, q) = Yield(f, n)
           /\ q = DiskLen(f) <=> n = DiskLen(f)
           /\ n - q < MinDecodeInput
<1> DEFINE S == {k \in Stops(f, r) : k <= n}
           q == Max(S)
           B == Len(f.blocks)
<1> SUFFICES /\ q \in Nat /\ r <= q /\ q <= n
             /\ \A i \in 1 .. B : f.blocks[i].disk <= n => f.blocks[i].disk <= q
             /\ Yield(f, q) = Yield(f, n)
             /\ q = DiskLen(f) <=> n = DiskLen(f)
             /\ n - q < MinDecodeInput
  OBVIOUS
<1>1. /\ B \in Nat \ {0} /\ DOMAIN f.blocks = 1 .. B
      /\ DiskLen(f) = f.blocks[B].disk /\ DiskLen(f) \in Nat
      /\ \A i \in 1 .. B : f.blocks[i].disk \in Nat
      /\ f.blocks[1].disk <= MinDecodeInput
      /\ \A i \in 1 .. B : i < B => f.blocks[i + 1].disk <= f.blocks[i].disk + MinDecodeInput
      /\ HeaderLen \in Nat /\ MinDecodeInput \in Nat \ {0}
  <2>1. HeaderLen \in Nat /\ MinDecodeInput \in Nat \ {0}
    BY SizesAssumption
  <2> QED BY <2>1, BlockShape, FileTypes, DiskShape
<1>2. \A i \in 1 .. B : f.blocks[i].disk \in Stops(f, r)
  BY <1>1 DEF Stops, Range
<1>3. Stops(f, r) \subseteq Nat /\ r \in Stops(f, r)
  BY <1>1 DEF Stops, Range
<1>4. S \subseteq 0 .. n /\ r \in S
  <2> SUFFICES ASSUME NEW k \in S PROVE k \in 0 .. n
    BY <1>3
  <2> QED BY <1>3
<1>5. q \in S /\ \A k \in S : k <= q
  <2> HIDE DEF S
  <2> QED BY <1>4, MaxNat
<1>6. \A i \in 1 .. B : f.blocks[i].disk <= n => f.blocks[i].disk \in S
  BY <1>2
<1> HIDE DEF S, q
<1>7. q \in Nat /\ r <= q /\ q <= n
  <2>1. q \in 0 .. n
    BY <1>4, <1>5
  <2>2. r <= q
    BY <1>4, <1>5
  <2> QED BY <2>1, <2>2
<1>8. \A i \in 1 .. B : f.blocks[i].disk <= n => f.blocks[i].disk <= q
  BY <1>5, <1>6
<1>9. Yield(f, q) = Yield(f, n)
  BY <1>7, <1>8, YieldGrows
<1>10. q = DiskLen(f) <=> n = DiskLen(f)
  <2>1. B \in 1 .. B
    BY <1>1
  <2>2. DiskLen(f) <= n => DiskLen(f) <= q
    BY <1>1, <1>8, <2>1
  <2> QED BY <1>1, <1>7, <2>2
<1>11. n - q < MinDecodeInput
  <2>1. CASE n = q
    BY <1>1, <1>7, <2>1
  <2>2. CASE n # q
    <3> DEFINE later == {i \in 1 .. B : f.blocks[i].disk > q}
    <3>1. later \in SUBSET Nat /\ later # {}
      <4>1. B \in later
        BY <1>1, <1>7, <2>2
      <4> QED BY <1>1, <4>1
    <3>2. PICK i \in later : \A k \in later : i <= k
      <4> HIDE DEF later
      <4> QED BY <3>1, LeastNat
    <3>3. i \in 1 .. B /\ f.blocks[i].disk > n /\ f.blocks[i].disk \in Nat
      <4>1. i \in 1 .. B /\ f.blocks[i].disk > q
        OBVIOUS
      <4>2. f.blocks[i].disk \in Nat
        BY <1>1, <4>1
      <4>3. f.blocks[i].disk <= n => f.blocks[i].disk <= q
        BY <1>8, <4>1
      <4>4. n \in Nat /\ q \in Nat
        BY <1>7
      <4> HIDE DEF later, B
      <4> QED BY <4>1, <4>2, <4>3, <4>4
    <3>4. f.blocks[i].disk <= q + MinDecodeInput
      <4>1. CASE i = 1
        BY <1>1, <1>7, <4>1
      <4>2. CASE i # 1
        <5> DEFINE k == i - 1
        <5>1. k \in 1 .. B /\ k < B /\ k + 1 = i /\ ~(i <= k)
          <6>1. B \in Nat /\ i \in 1 .. B /\ i # 1
            BY <1>1, <3>3, <4>2
          <6> HIDE DEF B, later
          <6> QED BY <6>1
        <5> HIDE DEF k
        <5>2. k \notin later
          BY <3>2, <5>1
        <5>3. f.blocks[k].disk <= q /\ f.blocks[k].disk \in Nat
          BY <1>1, <1>7, <5>1, <5>2
        <5>4. f.blocks[i].disk <= f.blocks[k].disk + MinDecodeInput
          BY <1>1, <5>1
        <5>5. q \in Nat /\ MinDecodeInput \in Nat /\ f.blocks[i].disk \in Nat
          BY <1>1, <1>7, <3>3
        <5> HIDE DEF later
        <5> QED BY <5>3, <5>4, <5>5
      <4> QED BY <4>1, <4>2
    <3> QED BY <1>1, <1>7, <3>3, <3>4
  <2> QED BY <2>1, <2>2
<1> QED BY <1>7, <1>8, <1>9, <1>10, <1>11

-----------------------------------------------------------------------------
(***************************************************************************)
(* What the decoder holds once it has been given the first fd cells.       *)
(***************************************************************************)
Decoder == [compression : {"unknown", "zstd", "none"}, started : BOOLEAN, finished : BOOLEAN,
            read : Nat, cin : Seq(Nat \X Nat), window : Seq(Nat \X Nat),
            out : Seq(Nat \X Nat), outPos : Nat]

(* It does not know the compression yet. *)
Sniffs(dec, fd) ==
  /\ dec \in Decoder /\ fd \in 0 .. DiskLen(file)
  /\ dec.compression = "unknown"
  /\ ~dec.started /\ ~dec.finished
  /\ dec.read = 0
  /\ dec.window = <<>> /\ dec.out = <<>> /\ dec.outPos = 0
  /\ dec.cin = SubSeq(Disk(file), 1, fd)

(* It copies: o cells have reached the buffer. *)
Copies(dec, fd, b, n, o) ==
  /\ dec \in Decoder /\ fd \in 0 .. DiskLen(file)
  /\ dec.compression = "none" /\ ~file.zstd
  /\ OutAt(dec, b, n, o)
  /\ o <= fd
  /\ dec.cin = SubSeq(Disk(file), o + 1, fd)

(* It decompresses: o cells of what the blocks read yield have reached the
   buffer, the others are in the window. *)
Unzips(dec, fd, b, n, o) ==
  /\ dec \in Decoder /\ fd \in 0 .. DiskLen(file)
  /\ dec.compression = "zstd" /\ file.zstd
  /\ OutAt(dec, b, n, o)
  /\ dec.read <= fd
  /\ dec.cin = SubSeq(Disk(file), dec.read + 1, fd)
  /\ o <= Yield(file, dec.read)
  /\ dec.window = SubSeq(Plain(file), o + 1, Yield(file, dec.read))
  /\ dec.finished <=> dec.read = DiskLen(file)
  /\ dec.finished => o = Yield(file, dec.read)
  /\ dec.started => fd >= MinHeader
  /\ ~dec.started => dec.read = 0

(* The length of a piece of a sequence. *)
LEMMA PieceLen ==
  ASSUME NEW S, NEW s \in Seq(S), NEW b \in Nat, NEW o \in Nat, b <= o, o <= Len(s)
  PROVE  /\ SubSeq(s, b + 1, o) \in Seq(S)
         /\ Len(SubSeq(s, b + 1, o)) = o - b
<1>1. Len(s) \in Nat
  BY LenProperties
<1>2. \A i \in b + 1 .. o : s[i] \in S
  <2> TAKE i \in b + 1 .. o
  <2>1. i \in 1 .. Len(s)
    BY <1>1
  <2> QED BY <2>1, ElementOfSeq
<1>3. /\ SubSeq(s, b + 1, o) \in Seq(S)
      /\ Len(SubSeq(s, b + 1, o)) = IF b + 1 <= o THEN o - (b + 1) + 1 ELSE 0
  <2>1. b + 1 \in Int /\ o \in Int
    OBVIOUS
  <2> QED BY <1>2, <2>1, SubSeqProperties
<1>4. (IF b + 1 <= o THEN o - (b + 1) + 1 ELSE 0) = o - b
  OBVIOUS
<1> QED BY <1>3, <1>4

(* The first MagicLen cells tell the compression. *)
LEMMA DetectSniffs ==
  ASSUME file \in Files, NEW dec, NEW fd, NEW finishing, Sniffs(dec, fd), fd >= MagicLen
  PROVE  /\ file.zstd => Unzips(Detect(dec, finishing), fd, 0, 0, 0)
         /\ ~file.zstd => Copies(Detect(dec, finishing), fd, 0, 0, 0)
<1> DEFINE known == [dec EXCEPT !.compression = IF file.zstd THEN "zstd" ELSE "none"]
<1>1. /\ dec \in Decoder /\ fd \in 0 .. DiskLen(file) /\ fd \in Nat
      /\ dec.compression = "unknown" /\ ~dec.started /\ ~dec.finished /\ dec.read = 0
      /\ dec.window = <<>> /\ dec.out = <<>> /\ dec.outPos = 0
      /\ dec.cin = SubSeq(Disk(file), 1, fd)
  BY DiskShape DEF Sniffs
<1>2. /\ Disk(file) \in Seq(Nat \X Nat) /\ Len(Disk(file)) = DiskLen(file)
      /\ DiskLen(file) \in Nat /\ MagicLen \in Nat \ {0}
      /\ DiskLen(file) >= MagicLen
      /\ Disk(file)[1] = <<0, 1>> <=> file.zstd
  BY DiskShape, SizesAssumption
<1>3. Len(dec.cin) = fd /\ dec.cin[1] = Disk(file)[1]
  <2>1. \A i \in 1 .. fd : Disk(file)[i] \in Nat \X Nat
    <3> TAKE i \in 1 .. fd
    <3>1. i \in 1 .. Len(Disk(file))
      BY <1>1, <1>2
    <3> QED BY <1>2, <3>1, ElementOfSeq
  <2>2. 1 \in Int /\ fd \in Int /\ 1 <= fd
    BY <1>1, <1>2
  <2>3. /\ Len(SubSeq(Disk(file), 1, fd)) = IF 1 <= fd THEN fd - 1 + 1 ELSE 0
        /\ \A i \in 1 .. fd - 1 + 1 : SubSeq(Disk(file), 1, fd)[i] = Disk(file)[1 + i - 1]
    BY <2>1, <2>2, SubSeqProperties
  <2>4. 1 \in 1 .. fd - 1 + 1 /\ 1 + 1 - 1 = 1 /\ fd - 1 + 1 = fd
    BY <2>2
  <2> QED BY <1>1, <2>2, <2>3, <2>4
<1>4. Detect(dec, finishing) = known
  <2>1. Len(dec.cin) >= MagicLen
    BY <1>3
  <2>2. dec.cin[1] = <<0, 1>> <=> file.zstd
    BY <1>2, <1>3
  <2> QED BY <1>1, <2>1, <2>2 DEF Detect
<1>5. /\ known \in Decoder
      /\ known.compression = IF file.zstd THEN "zstd" ELSE "none"
      /\ ~known.started /\ ~known.finished /\ known.read = 0
      /\ known.window = <<>> /\ known.out = <<>> /\ known.outPos = 0
      /\ known.cin = SubSeq(Disk(file), 1, fd)
  BY <1>1 DEF Decoder
<1> HIDE DEF known
<1>6. SubSeq(Plain(file), 0 + 1, 0) = <<>>
  BY SubSeqEmpty
<1>7. /\ Ends(file)[0] = 0 /\ 0 \in 0 .. Len(file.records)
      /\ Len(Plain(file)) \in Nat
  BY EndsSteps, FileTypes
<1>8. OutAt(known, 0, 0, 0)
  BY <1>5, <1>6, <1>7 DEF OutAt
<1>9. ASSUME file.zstd PROVE Unzips(known, fd, 0, 0, 0)
  <2>1. Yield(file, 0) = 0
    BY <1>9, YieldEnds
  <2>2. known.read <= fd /\ known.cin = SubSeq(Disk(file), known.read + 1, fd)
    BY <1>1, <1>5
  <2>3. 0 <= Yield(file, known.read)
        /\ known.window = SubSeq(Plain(file), 0 + 1, Yield(file, known.read))
    BY <1>5, <1>6, <2>1
  <2>4. known.finished <=> known.read = DiskLen(file)
    BY <1>2, <1>5
  <2> QED BY <1>1, <1>5, <1>8, <1>9, <2>2, <2>3, <2>4 DEF Unzips
<1>10. ASSUME ~file.zstd PROVE Copies(known, fd, 0, 0, 0)
  <2>1. 0 <= fd /\ known.cin = SubSeq(Disk(file), 0 + 1, fd)
    BY <1>1, <1>5
  <2> QED BY <1>1, <1>5, <1>8, <1>10, <2>1 DEF Copies
<1> QED BY <1>4, <1>9, <1>10

(* What is copied reaches the buffer in the same call. *)
LEMMA FillCopies ==
  ASSUME file \in Files, NEW dec, NEW fd, NEW b, NEW n, NEW o, NEW finishing,
         Copies(dec, fd, b, n, o)
  PROVE  /\ Copies(Fill(dec, finishing), fd, b, n, fd)
         /\ ~FillFails(dec, finishing)
<1> DEFINE filled == [dec EXCEPT !.out = @ \o dec.cin, !.cin = <<>>]
           P == Plain(file)
<1>1. /\ dec \in Decoder /\ fd \in 0 .. DiskLen(file) /\ fd \in Nat
      /\ dec.compression = "none" /\ ~file.zstd /\ OutAt(dec, b, n, o)
      /\ o <= fd /\ dec.cin = SubSeq(Disk(file), o + 1, fd)
  BY DiskShape DEF Copies
<1>2. Disk(file) = P /\ DiskLen(file) = Len(P) /\ P \in Seq(Nat \X Nat) /\ Len(P) \in Nat
  BY <1>1, DiskShape, EndsSteps
<1>3. /\ b \in Nat /\ o \in Nat /\ n \in 0 .. Len(file.records)
      /\ dec.out = SubSeq(P, b + 1, o) /\ dec.outPos \in Nat
      /\ b + dec.outPos = Ends(file)[n] /\ Ends(file)[n] <= o
      /\ Ends(file)[n] \in Nat
  BY <1>1, EndsSteps DEF OutAt
<1>4. b <= o
  BY <1>1, OutShape
<1>5. Detect(dec, finishing) = dec
  BY <1>1 DEF Detect
<1>6. Fill(dec, finishing) = filled
  BY <1>1, <1>5 DEF Fill
<1>7. ~FillFails(dec, finishing)
  BY <1>1, <1>5 DEF FillFails
<1>8. dec.out \o dec.cin = SubSeq(P, b + 1, fd)
  <2>1. /\ b + 1 \in 1 .. Len(P) + 1 /\ o \in (b + 1) - 1 .. Len(P)
        /\ fd \in o .. Len(P)
    BY <1>1, <1>2, <1>3, <1>4
  <2>2. SubSeq(P, b + 1, o) \o SubSeq(P, o + 1, fd) = SubSeq(P, b + 1, fd)
    BY <1>2, <2>1, ConcatAdjacentSubSeq
  <2> QED BY <1>1, <1>2, <1>3, <2>2
<1>9. SubSeq(P, b + 1, fd) \in Seq(Nat \X Nat)
  <2>1. b <= fd /\ fd <= Len(P)
    BY <1>1, <1>2, <1>3, <1>4
  <2> QED BY <1>1, <1>2, <1>3, <2>1, PieceLen
<1>10. /\ filled.out = SubSeq(P, b + 1, fd) /\ filled.cin = <<>>
       /\ filled.outPos = dec.outPos /\ filled.compression = dec.compression
  BY <1>1, <1>8 DEF Decoder
<1>11. filled \in Decoder
  <2>1. <<>> \in Seq(Nat \X Nat)
    BY EmptySeq
  <2> QED BY <1>1, <1>8, <1>9, <2>1 DEF Decoder
<1> HIDE DEF filled
<1>12. filled.cin = SubSeq(Disk(file), fd + 1, fd)
  BY <1>1, <1>10, SubSeqEmpty
<1>13. OutAt(filled, b, n, fd)
  BY <1>1, <1>2, <1>3, <1>10 DEF OutAt
<1>14. Copies(filled, fd, b, n, fd)
  BY <1>1, <1>10, <1>11, <1>12, <1>13 DEF Copies
<1> QED BY <1>6, <1>7, <1>14

(* Decompressing takes every block that is there whole, and gives out what
   lies further back than the window, or everything after the last block. *)
LEMMA DecodeUnzips ==
  ASSUME file \in Files, NEW dec, NEW fd, NEW b, NEW n, NEW o, Unzips(dec, fd, b, n, o),
         dec.started
  PROVE  \E o1 \in Nat :
           /\ o <= o1
           /\ Unzips(Decode(dec), fd, b, n, o1)
           /\ Decode(dec).started
           /\ Len(Decode(dec).cin) < MinDecodeInput
           /\ Yield(file, Decode(dec).read) = Yield(file, fd)
           /\ Decode(dec).finished <=> fd = DiskLen(file)
<1> DEFINE P == Plain(file)
           K == Disk(file)
           read == Max({k \in Stops(file, dec.read) : k <= dec.read + Len(dec.cin)})
           finished == read = DiskLen(file)
           y == Yield(file, dec.read)
           y1 == Yield(file, read)
           window == dec.window \o SubSeq(P, y + 1, y1)
           kept == IF finished THEN 0 ELSE Min({Window, Len(window)})
           decoded == [dec EXCEPT !.read = read,
                                  !.finished = finished,
                                  !.cin = SubSeq(@, read - dec.read + 1, Len(@)),
                                  !.out = @ \o SubSeq(window, 1, Len(window) - kept),
                                  !.window = SubSeq(window, Len(window) - kept + 1, Len(window))]
<1>1. /\ dec \in Decoder /\ fd \in 0 .. DiskLen(file)
      /\ dec.compression = "zstd" /\ file.zstd
      /\ OutAt(dec, b, n, o)
      /\ dec.read <= fd
      /\ dec.cin = SubSeq(K, dec.read + 1, fd)
      /\ o <= y
      /\ dec.window = SubSeq(P, o + 1, y)
      /\ dec.started => fd >= MinHeader
  BY DEF Unzips
<1>2. K \in Seq(Nat \X Nat) /\ DiskLen(file) \in Nat /\ Len(K) = DiskLen(file)
  BY DiskShape
<1>3. P \in Seq(Nat \X Nat) /\ Len(P) \in Nat
  BY EndsSteps
<1>4. dec.read \in Nat /\ fd \in Nat /\ fd <= DiskLen(file)
  BY <1>1, <1>2 DEF Decoder
<1>5. Len(dec.cin) = fd - dec.read
  BY <1>1, <1>2, <1>4, PieceLen
<1>6. dec.read + Len(dec.cin) = fd
  BY <1>4, <1>5
<1>7. Decode(dec) = decoded
  BY DEF Decode, Stops
<1>8. /\ read \in Nat /\ dec.read <= read /\ read <= fd
      /\ y1 = Yield(file, fd)
      /\ read = DiskLen(file) <=> fd = DiskLen(file)
      /\ fd - read < MinDecodeInput
  <2>1. LET q == Max({k \in Stops(file, dec.read) : k <= fd}) IN
          /\ q \in Nat /\ dec.read <= q /\ q <= fd
          /\ Yield(file, q) = Yield(file, fd)
          /\ q = DiskLen(file) <=> fd = DiskLen(file)
          /\ fd - q < MinDecodeInput
    BY <1>1, <1>4, StopShape
  <2> QED BY <1>6, <2>1
<1> HIDE DEF read
<1>9. /\ b \in Nat /\ o \in Nat /\ n \in 0 .. Len(file.records)
      /\ dec.out = SubSeq(P, b + 1, o) /\ dec.outPos \in Nat
      /\ b + dec.outPos = Ends(file)[n] /\ Ends(file)[n] <= o
      /\ Ends(file)[n] \in Nat /\ b <= o
  BY <1>1, OutShape, EndsSteps DEF OutAt
<1>10. y \in Nat /\ y1 \in Nat /\ y <= y1 /\ y1 <= Len(P)
  <2>1. y \in 0 .. Len(P) /\ y1 \in 0 .. Len(P)
    BY <1>1, <1>4, <1>8, YieldShape
  <2>2. y <= y1
    BY <1>1, <1>4, <1>8, YieldGrows
  <2> QED BY <1>3, <2>1, <2>2
<1> HIDE DEF y, y1
<1>11. window = SubSeq(P, o + 1, y1)
  <2>1. o + 1 \in 1 .. Len(P) + 1 /\ y \in (o + 1) - 1 .. Len(P) /\ y1 \in y .. Len(P)
    BY <1>1, <1>3, <1>9, <1>10
  <2> QED BY <1>1, <1>3, <2>1, ConcatAdjacentSubSeq
<1> HIDE DEF window
<1>12. o <= y1 /\ Len(window) = y1 - o /\ Len(window) \in Nat
  <2>1. o <= y1
    BY <1>1, <1>9, <1>10
  <2>2. Len(window) = y1 - o
    BY <1>3, <1>9, <1>10, <1>11, <2>1, PieceLen
  <2> QED BY <1>9, <1>10, <2>1, <2>2
<1>13. kept \in 0 .. Len(window) /\ (finished => kept = 0)
  <2>1. Min({Window, Len(window)}) \in 0 .. Len(window)
    <3>1. Window \in Nat
      BY SizesAssumption
    <3>2. \E x \in {Window, Len(window)} : \A z \in {Window, Len(window)} : x <= z
      BY <1>12, <3>1
    <3>3. Min({Window, Len(window)}) \in {Window, Len(window)}
          /\ Min({Window, Len(window)}) <= Len(window)
      BY <3>2 DEF Min
    <3> QED BY <1>12, <3>1, <3>3
  <2>2. 0 \in 0 .. Len(window)
    BY <1>12
  <2> QED BY <2>1, <2>2
<1> HIDE DEF kept
<1> DEFINE o1 == y1 - kept
<1>14. o1 \in Nat /\ o <= o1 /\ o1 <= y1 /\ Len(window) - kept = o1 - o
  BY <1>9, <1>10, <1>12, <1>13
<1> HIDE DEF o1
<1>15. SubSeq(window, 1, Len(window) - kept) = SubSeq(P, o + 1, o1)
  <2> DEFINE i == 0
             k == o1 - o
  <2>1. /\ i \in Nat /\ k \in Nat /\ i <= k /\ k <= y1 - o
        /\ o \in Nat /\ y1 \in Nat /\ o <= y1 /\ y1 <= Len(P)
    BY <1>9, <1>10, <1>12, <1>14
  <2>2. i + 1 = 1 /\ (o + i) + 1 = o + 1 /\ o + k = o1 /\ k = Len(window) - kept
    BY <1>9, <1>14
  <2> HIDE DEF i, k, P
  <2>3. SubSeq(SubSeq(P, o + 1, y1), i + 1, k) = SubSeq(P, (o + i) + 1, o + k)
    BY <1>3, <2>1, SubSub
  <2> QED BY <1>11, <2>2, <2>3
<1>16. SubSeq(window, Len(window) - kept + 1, Len(window)) = SubSeq(P, o1 + 1, y1)
  <2> DEFINE i == o1 - o
             k == y1 - o
  <2>1. /\ i \in Nat /\ k \in Nat /\ i <= k /\ k <= y1 - o
        /\ o \in Nat /\ y1 \in Nat /\ o <= y1 /\ y1 <= Len(P)
    BY <1>9, <1>10, <1>12, <1>14
  <2>2. o + i = o1 /\ o + k = y1 /\ i = Len(window) - kept /\ k = Len(window)
    BY <1>9, <1>10, <1>12, <1>14
  <2> HIDE DEF i, k, P
  <2>3. SubSeq(SubSeq(P, o + 1, y1), i + 1, k) = SubSeq(P, (o + i) + 1, o + k)
    BY <1>3, <2>1, SubSub
  <2> QED BY <1>11, <2>2, <2>3
<1>17. dec.out \o SubSeq(P, o + 1, o1) = SubSeq(P, b + 1, o1)
  <2>1. b + 1 \in 1 .. Len(P) + 1 /\ o \in (b + 1) - 1 .. Len(P) /\ o1 \in o .. Len(P)
    BY <1>3, <1>9, <1>10, <1>14
  <2> QED BY <1>3, <1>9, <2>1, ConcatAdjacentSubSeq
<1>18. SubSeq(dec.cin, read - dec.read + 1, Len(dec.cin)) = SubSeq(K, read + 1, fd)
  <2> DEFINE r == dec.read
             i == read - r
             k == fd - r
  <2>1. /\ r \in Nat /\ fd \in Nat /\ r <= fd /\ fd <= Len(K)
        /\ i \in Nat /\ k \in Nat /\ i <= k /\ k <= fd - r
    BY <1>1, <1>2, <1>4, <1>8
  <2>2. r + i = read /\ r + k = fd /\ k = Len(dec.cin) /\ i = read - dec.read
    BY <1>4, <1>5, <1>8
  <2>3. dec.cin = SubSeq(K, r + 1, fd)
    BY <1>1
  <2> HIDE DEF r, i, k, K
  <2>4. SubSeq(SubSeq(K, r + 1, fd), i + 1, k) = SubSeq(K, (r + i) + 1, r + k)
    BY <1>2, <2>1, SubSub
  <2> QED BY <2>2, <2>3, <2>4
<1>19. /\ SubSeq(K, read + 1, fd) \in Seq(Nat \X Nat)
       /\ Len(SubSeq(K, read + 1, fd)) = fd - read
       /\ SubSeq(P, o1 + 1, y1) \in Seq(Nat \X Nat)
       /\ SubSeq(P, b + 1, o1) \in Seq(Nat \X Nat)
  <2>1. b <= o1 /\ o1 <= Len(P) /\ fd <= Len(K)
    BY <1>2, <1>3, <1>4, <1>9, <1>10, <1>14
  <2>2. SubSeq(K, read + 1, fd) \in Seq(Nat \X Nat) /\ Len(SubSeq(K, read + 1, fd)) = fd - read
    BY <1>2, <1>4, <1>8, <2>1, PieceLen
  <2>3. SubSeq(P, o1 + 1, y1) \in Seq(Nat \X Nat)
    BY <1>3, <1>10, <1>14, PieceLen
  <2>4. SubSeq(P, b + 1, o1) \in Seq(Nat \X Nat)
    BY <1>3, <1>9, <1>14, <2>1, PieceLen
  <2> QED BY <2>2, <2>3, <2>4
<1>20. /\ decoded.read = read /\ decoded.finished = finished
       /\ decoded.cin = SubSeq(K, read + 1, fd)
       /\ decoded.out = SubSeq(P, b + 1, o1)
       /\ decoded.window = SubSeq(P, o1 + 1, y1)
       /\ decoded.outPos = dec.outPos /\ decoded.compression = dec.compression
       /\ decoded.started = dec.started
  BY <1>1, <1>15, <1>16, <1>17, <1>18 DEF Decoder
<1>21. decoded \in Decoder
  <2>1. finished \in BOOLEAN
    OBVIOUS
  <2> HIDE DEF finished, P, K
  <2> QED BY <1>1, <1>8, <1>15, <1>16, <1>17, <1>18, <1>19, <2>1 DEF Decoder
<1> HIDE DEF decoded
<1>22. OutAt(decoded, b, n, o1)
  <2>1. o1 <= Len(P) /\ Ends(file)[n] <= o1
    BY <1>3, <1>9, <1>10, <1>14
  <2> QED BY <1>9, <1>14, <1>20, <2>1 DEF OutAt
<1>23. Unzips(decoded, fd, b, n, o1)
  <2>1. decoded.read <= fd /\ decoded.cin = SubSeq(Disk(file), decoded.read + 1, fd)
    BY <1>8, <1>20
  <2>2. o1 <= Yield(file, decoded.read)
        /\ decoded.window = SubSeq(Plain(file), o1 + 1, Yield(file, decoded.read))
    BY <1>14, <1>20 DEF y1
  <2>3. decoded.finished <=> decoded.read = DiskLen(file)
    BY <1>20
  <2>4. decoded.finished => o1 = Yield(file, decoded.read)
    <3>1. finished => o1 = y1
      BY <1>10, <1>13 DEF o1
    <3> QED BY <1>20, <3>1 DEF y1
  <2>5. decoded.started /\ fd >= MinHeader
    BY <1>1, <1>20
  <2> QED BY <1>1, <1>20, <1>21, <1>22, <2>1, <2>2, <2>3, <2>4, <2>5 DEF Unzips
<1>24. Len(decoded.cin) < MinDecodeInput
  BY <1>8, <1>19, <1>20
<1>25. Yield(file, decoded.read) = Yield(file, fd)
  BY <1>8, <1>20 DEF y1
<1>26. decoded.finished <=> fd = DiskLen(file)
  BY <1>8, <1>20
<1> QED BY <1>7, <1>1, <1>14, <1>20, <1>23, <1>24, <1>25, <1>26

(* decompress either waits, or takes what there is; it fails only at a corrupt
   block that has arrived. *)
LEMMA FillUnzips ==
  ASSUME file \in Files, NEW dec, NEW fd, NEW b, NEW n, NEW o, NEW finishing \in BOOLEAN,
         Unzips(dec, fd, b, n, o)
  PROVE  /\ FillFails(dec, finishing) =>
              file.corrupt # 0 /\ file.blocks[file.corrupt].disk <= fd
         /\ ~FillFails(dec, finishing) =>
              \E o1 \in Nat :
                /\ o <= o1
                /\ Unzips(Fill(dec, finishing), fd, b, n, o1)
                /\ ~finishing => Len(Fill(dec, finishing).cin) < MinDecodeInput
                /\ finishing /\ ~Fill(dec, finishing).started => fd < MinHeader
                /\ finishing /\ Fill(dec, finishing).started =>
                     /\ Yield(file, Fill(dec, finishing).read) = Yield(file, fd)
                     /\ Fill(dec, finishing).finished <=> fd = DiskLen(file)
<1> DEFINE ready == [dec EXCEPT !.started = TRUE]
<1>1. /\ dec \in Decoder /\ fd \in 0 .. DiskLen(file)
      /\ dec.compression = "zstd" /\ file.zstd
      /\ OutAt(dec, b, n, o)
      /\ dec.read <= fd
      /\ dec.cin = SubSeq(Disk(file), dec.read + 1, fd)
      /\ o <= Yield(file, dec.read)
      /\ dec.window = SubSeq(Plain(file), o + 1, Yield(file, dec.read))
      /\ dec.finished <=> dec.read = DiskLen(file)
      /\ dec.finished => o = Yield(file, dec.read)
      /\ dec.started => fd >= MinHeader
      /\ ~dec.started => dec.read = 0
  BY DEF Unzips
<1>2. /\ Disk(file) \in Seq(Nat \X Nat) /\ DiskLen(file) \in Nat
      /\ Len(Disk(file)) = DiskLen(file)
  BY DiskShape
<1>3. dec.read \in Nat /\ fd \in Nat /\ fd <= DiskLen(file) /\ dec.started \in BOOLEAN
  BY <1>1, <1>2 DEF Decoder
<1>4. Len(dec.cin) = fd - dec.read
  BY <1>1, <1>2, <1>3, PieceLen
<1>5. /\ MinHeader \in Nat /\ HeaderLen \in Nat /\ MinDecodeInput \in Nat
      /\ HeaderLen <= MinHeader /\ MinHeader <= MinDecodeInput
  BY SizesAssumption
<1>6. Detect(dec, finishing) = dec
  BY <1>1 DEF Detect
<1>7. CASE Waits(dec, finishing)
  <2>1. Fill(dec, finishing) = dec /\ ~FillFails(dec, finishing)
    BY <1>1, <1>6, <1>7 DEF Fill, FillFails
  <2>2. o \in Nat /\ o <= o
    BY <1>1 DEF OutAt
  <2>3. ~finishing => Len(dec.cin) < MinDecodeInput
    <3>1. Len(dec.cin) < MinHeader \/ (~finishing => Len(dec.cin) < MinDecodeInput)
      BY <1>7 DEF Waits
    <3> QED BY <1>3, <1>4, <1>5, <3>1
  <2>4. finishing => ~dec.started /\ fd < MinHeader
    <3> SUFFICES ASSUME finishing PROVE ~dec.started /\ fd < MinHeader
      OBVIOUS
    <3>1. ~dec.started /\ Len(dec.cin) < MinHeader
      BY <1>7 DEF Waits
    <3> QED BY <1>1, <1>3, <1>4, <1>5, <3>1
  <2> QED BY <2>1, <2>2, <2>3, <2>4
<1>8. CASE ~Waits(dec, finishing)
  <2>1. Fill(dec, finishing) = Decode(ready)
    BY <1>1, <1>6, <1>8 DEF Fill
  <2>2. fd >= MinHeader
    <3>1. ~dec.started => ~(Len(dec.cin) < MinHeader)
      BY <1>8 DEF Waits
    <3> QED BY <1>1, <1>3, <1>4, <1>5, <3>1
  <2>3. FillFails(dec, finishing) => file.corrupt # 0 /\ file.blocks[file.corrupt].disk <= fd
    <3> SUFFICES ASSUME FillFails(dec, finishing)
                 PROVE  file.corrupt # 0 /\ file.blocks[file.corrupt].disk <= fd
      OBVIOUS
    <3>1. ~Decodable(dec)
      BY <1>6 DEF FillFails
    <3>2. dec.read = 0 => Len(dec.cin) >= HeaderLen
      BY <1>3, <1>4, <1>5, <2>2
    <3>3. dec.read + Len(dec.cin) = fd
      BY <1>3, <1>4
    <3>4. dec.cin = SubSeq(Disk(file), dec.read + 1, dec.read + Len(dec.cin))
      BY <1>1, <3>3
    <3>5. file.corrupt # 0 /\ ~(file.blocks[file.corrupt].disk > fd)
      BY <3>1, <3>2, <3>3, <3>4 DEF Decodable
    <3>6. file.corrupt \in 1 .. Len(file.blocks)
      <4>1. file.corrupt \in 0 .. Len(file.blocks) /\ Len(file.blocks) \in Nat
        BY <1>1, BlockShape
      <4> QED BY <3>5, <4>1
    <3>7. file.blocks[file.corrupt].disk \in Nat
      BY <3>6, FileTypes
    <3> QED BY <1>3, <3>5, <3>7
  <2>4. /\ ready \in Decoder /\ ready.started
        /\ ready.compression = dec.compression /\ ready.read = dec.read
        /\ ready.finished = dec.finished /\ ready.cin = dec.cin
        /\ ready.window = dec.window /\ ready.out = dec.out /\ ready.outPos = dec.outPos
    BY <1>1 DEF Decoder
  <2> HIDE DEF ready
  <2>5. OutAt(ready, b, n, o)
    BY <1>1, <2>4 DEF OutAt
  <2>6. Unzips(ready, fd, b, n, o)
    BY <1>1, <2>2, <2>4, <2>5 DEF Unzips
  <2>7. PICK o1 \in Nat :
          /\ o <= o1
          /\ Unzips(Decode(ready), fd, b, n, o1)
          /\ Decode(ready).started
          /\ Len(Decode(ready).cin) < MinDecodeInput
          /\ Yield(file, Decode(ready).read) = Yield(file, fd)
          /\ Decode(ready).finished <=> fd = DiskLen(file)
    BY <2>4, <2>6, DecodeUnzips
  <2> QED BY <2>1, <2>3, <2>7
<1> QED BY <1>7, <1>8

-----------------------------------------------------------------------------
(***************************************************************************)
(* A scan, and what it hands out.                                          *)
(***************************************************************************)
(* The first n records have been handed out, and lie within o cells. *)
Taken(em, n, o) ==
  /\ n \in 0 .. Len(file.records)
  /\ em = SubSeq(Bodies, 1, n)
  /\ \A k \in 0 .. n - 1 : Whole(k, o)

(* A scan moves the buffer only. *)
Kept(dec, new) ==
  /\ new \in Decoder
  /\ new.compression = dec.compression
  /\ new.started = dec.started /\ new.finished = dec.finished
  /\ new.read = dec.read /\ new.cin = dec.cin /\ new.window = dec.window

LEMMA ScanStep ==
  ASSUME file \in Files, NEW dec \in Decoder, NEW b, NEW n, NEW o, OutAt(dec, b, n, o),
         NEW em, Taken(em, n, o)
  PROVE  \E m \in 0 .. Len(file.records), b1 \in Nat :
           /\ n <= m
           /\ Taken(em \o Found(dec), m, o)
           /\ ~Whole(m, o)
           /\ ScanFails(dec) <=> Broken(m, o)
           /\ OutAt(Scanned(dec), b1, m, o)
           /\ Kept(dec, Scanned(dec))
           /\ Len(Scanned(dec).out) - Scanned(dec).outPos = o - Ends(file)[m]
<1> DEFINE N == Len(file.records)
           E == Ends(file)
           P == Plain(file)
<1>1. PICK m \in n .. N :
        /\ E[m] <= o
        /\ \A k \in n .. m - 1 : Whole(k, o)
        /\ ~Whole(m, o)
        /\ ScanEnd(dec) = E[m] - b
        /\ Found(dec) = SubSeq(Bodies, n + 1, m)
        /\ ScanFails(dec) <=> Broken(m, o)
  BY ScanFrom
<1>2. /\ b \in Nat /\ o \in Nat /\ o <= Len(P) /\ n \in 0 .. N
      /\ dec.out = SubSeq(P, b + 1, o)
      /\ dec.outPos \in Nat /\ b + dec.outPos = E[n] /\ E[n] <= o
  BY DEF OutAt
<1>3. N \in Nat /\ n \in Nat /\ m \in 0 .. N /\ n <= m /\ m \in Nat
  BY <1>2, FileTypes
<1>4. E[m] \in Nat /\ E[n] \in Nat /\ P \in Seq(Nat \X Nat)
  BY <1>2, <1>3, EndsSteps
<1>5. b <= o /\ Len(dec.out) = o - b
  BY OutShape
<1>6. E[n] <= E[m]
  <2>1. n < m => E[n] < E[m]
    BY <1>2, <1>3, PlainShape
  <2> QED BY <1>3, <1>4, <2>1
<1> DEFINE s == E[m] - b
<1>7. s \in Nat /\ s <= o - b /\ b + s = E[m] /\ (o - b) - s = o - E[m]
  <2>1. b <= E[n]
    BY <1>2, <1>4
  <2>2. b <= E[m] /\ E[m] <= o /\ E[m] \in Nat /\ b \in Nat /\ o \in Nat
    BY <1>1, <1>2, <1>4, <1>6, <2>1
  <2> HIDE DEF E
  <2> QED BY <2>2
<1>8. Taken(em \o Found(dec), m, o)
  <2>1. em = SubSeq(Bodies, 1, n) /\ \A k \in 0 .. n - 1 : Whole(k, o)
    BY DEF Taken
  <2>2. SubSeq(Bodies, 1, n) \o SubSeq(Bodies, n + 1, m) = SubSeq(Bodies, 1, m)
    <3>1. /\ Bodies \in Seq(Seq(Nat \X Nat)) /\ Len(Bodies) = N
      BY BodiesType
    <3>2. 1 \in 1 .. N + 1 /\ n \in 1 - 1 .. N /\ m \in n .. N
      BY <1>3
    <3> QED BY <3>1, <3>2, ConcatAdjacentSubSeq
  <2>3. \A k \in 0 .. m - 1 : Whole(k, o)
    <3> TAKE k \in 0 .. m - 1
    <3>1. k \in 0 .. n - 1 \/ k \in n .. m - 1
      BY <1>3
    <3> QED BY <1>1, <2>1, <3>1
  <2> QED BY <1>1, <1>3, <2>1, <2>2, <2>3 DEF Taken
<1>9. CASE ScanEnd(dec) < CompactThreshold
  <2> DEFINE new == [dec EXCEPT !.outPos = s]
  <2>1. Scanned(dec) = new
    BY <1>1, <1>9 DEF Scanned
  <2>2. /\ Kept(dec, new) /\ new.out = dec.out /\ new.outPos = s
    BY <1>7 DEF Kept, Decoder
  <2> HIDE DEF new
  <2>3. OutAt(new, b, m, o)
    BY <1>1, <1>2, <1>3, <1>7, <2>2 DEF OutAt
  <2>4. Len(new.out) - new.outPos = o - E[m]
    BY <1>5, <1>7, <2>2
  <2> QED BY <1>1, <1>2, <1>3, <1>8, <2>1, <2>2, <2>3, <2>4
<1>10. CASE ~(ScanEnd(dec) < CompactThreshold)
  <2> DEFINE new == [dec EXCEPT !.out = SubSeq(@, s + 1, Len(@)), !.outPos = 0]
  <2>1. Scanned(dec) = new
    BY <1>1, <1>10 DEF Scanned
  <2>2. SubSeq(dec.out, s + 1, Len(dec.out)) = SubSeq(P, E[m] + 1, o)
    <3> DEFINE k == o - b
    <3>1. /\ k \in Nat /\ s \in Nat /\ s <= k /\ k <= o - b /\ b + k = o /\ k = Len(dec.out)
          /\ b + s = E[m]
      BY <1>2, <1>5, <1>7
    <3>2. o <= Len(P) /\ dec.out = SubSeq(P, b + 1, o)
      BY <1>2
    <3> HIDE DEF k, s, P, E
    <3>3. SubSeq(SubSeq(P, b + 1, o), s + 1, k) = SubSeq(P, (b + s) + 1, b + k)
      BY <1>2, <1>4, <1>5, <3>1, <3>2, SubSub
    <3> QED BY <3>1, <3>2, <3>3
  <2>3. /\ SubSeq(P, E[m] + 1, o) \in Seq(Nat \X Nat)
        /\ Len(SubSeq(P, E[m] + 1, o)) = o - E[m]
    <3> DEFINE e == E[m]
    <3>1. e \in Nat /\ o \in Nat /\ e <= o /\ o <= Len(P) /\ P \in Seq(Nat \X Nat)
      BY <1>1, <1>2, <1>4
    <3> HIDE DEF e, P
    <3>2. SubSeq(P, e + 1, o) \in Seq(Nat \X Nat) /\ Len(SubSeq(P, e + 1, o)) = o - e
      BY <3>1, PieceLen
    <3> QED BY <3>2 DEF e
  <2>4. /\ Kept(dec, new) /\ new.outPos = 0 /\ new.out = SubSeq(P, E[m] + 1, o)
    <3>1. 0 \in Nat
      OBVIOUS
    <3> HIDE DEF s, P, E
    <3> QED BY <2>2, <2>3, <3>1 DEF Kept, Decoder
  <2> HIDE DEF new
  <2>5. OutAt(new, E[m], m, o)
    <3>1. E[m] + 0 = E[m]
      BY <1>4
    <3> QED BY <1>1, <1>2, <1>3, <1>4, <2>4, <3>1 DEF OutAt
  <2>6. Len(new.out) - new.outPos = o - E[m]
    <3>1. (o - E[m]) - 0 = o - E[m]
      BY <1>2, <1>4
    <3> QED BY <2>3, <2>4, <3>1
  <2> QED BY <1>1, <1>3, <1>4, <1>8, <2>1, <2>4, <2>5, <2>6
<1> QED BY <1>9, <1>10

(* What has been taken, when the next record is not whole, is all that can be
   recovered; what has been taken earlier is a prefix of it. *)
LEMMA TakenIsPrefix ==
  ASSUME file \in Files, NEW em, NEW n, NEW o, Taken(em, n, o)
  PROVE  /\ em \in Seq(Seq(Nat \X Nat)) /\ Len(em) = n
         /\ n \in 0 .. Len(file.records)
<1>1. n \in 0 .. Len(file.records) /\ em = SubSeq(Bodies, 0 + 1, n)
  BY DEF Taken
<1>2. Bodies \in Seq(Seq(Nat \X Nat)) /\ Len(Bodies) = Len(file.records) /\ Len(Bodies) \in Nat
  BY BodiesType, LenProperties
<1>3. n \in Nat /\ 0 <= n /\ n <= Len(Bodies) /\ n - 0 = n
  BY <1>1, <1>2
<1> QED BY <1>1, <1>2, <1>3, PieceLen

LEMMA RecoverableIs ==
  ASSUME file \in Files, NEW o \in Nat
  PROVE  \E m \in 0 .. Len(file.records) :
           /\ Taken(Recoverable(o), m, o)
           /\ ~Whole(m, o)
<1> DEFINE N == Len(file.records)
           S == {i \in 0 .. N : GoodUpTo(i, o)}
           m == Max(S)
<1>1. N \in Nat
  BY FileTypes
<1>2. \A i \in 0 .. N : GoodUpTo(i, o) <=> \A k \in 0 .. i - 1 : Whole(k, o)
  <2> SUFFICES ASSUME NEW i \in 0 .. N
               PROVE  GoodUpTo(i, o) <=> \A k \in 0 .. i - 1 : Whole(k, o)
    OBVIOUS
  <2>1. ASSUME GoodUpTo(i, o), NEW k \in 0 .. i - 1 PROVE Whole(k, o)
    <3>1. k + 1 \in 1 .. i /\ k < N /\ k + 1 \in 0 .. N
      BY <1>1
    <3>2. file.records[k + 1].kind = "good" /\ EndOf(k + 1) <= o
      BY <2>1, <3>1 DEF GoodUpTo
    <3> QED BY <3>1, <3>2, EndOfIs DEF Whole
  <2>2. ASSUME \A k \in 0 .. i - 1 : Whole(k, o) PROVE GoodUpTo(i, o)
    <3> SUFFICES ASSUME NEW k \in 1 .. i PROVE file.records[k].kind = "good" /\ EndOf(k) <= o
      BY DEF GoodUpTo
    <3>1. k - 1 \in 0 .. i - 1 /\ (k - 1) + 1 = k /\ k \in 0 .. N
      BY <1>1
    <3>2. Whole(k - 1, o)
      BY <2>2, <3>1
    <3>3. file.records[k].kind = "good" /\ Ends(file)[k] <= o
      BY <3>1, <3>2 DEF Whole
    <3> QED BY <3>1, <3>3, EndOfIs
  <2> QED BY <2>1, <2>2
<1>3. S \subseteq 0 .. N /\ 0 \in S
  BY <1>1, <1>2
<1>4. m \in S /\ \A i \in S : i <= m
  <2> HIDE DEF S
  <2> QED BY <1>1, <1>3, MaxNat
<1>5. m \in 0 .. N /\ \A k \in 0 .. m - 1 : Whole(k, o)
  <2> HIDE DEF m
  <2> QED BY <1>2, <1>4
<1>6. ~Whole(m, o)
  <2> SUFFICES ASSUME Whole(m, o) PROVE FALSE
    OBVIOUS
  <2> HIDE DEF m
  <2>1. m + 1 \in 0 .. N /\ ~(m + 1 <= m)
    BY <1>1, <1>5 DEF Whole
  <2>2. \A k \in 0 .. (m + 1) - 1 : Whole(k, o)
    <3> TAKE k \in 0 .. (m + 1) - 1
    <3>1. k = m \/ k \in 0 .. m - 1
      BY <1>1, <1>5
    <3> QED BY <1>5, <3>1
  <2>3. m + 1 \in S
    BY <1>2, <2>1, <2>2
  <2> HIDE DEF S
  <2> QED BY <1>4, <2>1, <2>3
<1>7. Recoverable(o) = [i \in 1 .. m |-> Body(i)]
  BY DEF Recoverable
<1> HIDE DEF m
<1>8. Recoverable(o) = SubSeq(Bodies, 1, m)
  <2>1. /\ Bodies \in Seq(Seq(Nat \X Nat)) /\ Len(Bodies) = N
        /\ \A i \in 1 .. N : Bodies[i] = Body(i)
    BY BodiesType
  <2>2. \A i \in 1 .. m : i \in 1 .. N
    BY <1>1, <1>5
  <2>3. \A i \in 1 .. m : Bodies[i] \in Seq(Nat \X Nat)
    BY <2>1, <2>2, ElementOfSeq
  <2>4. /\ SubSeq(Bodies, 1, m) \in Seq(Seq(Nat \X Nat))
        /\ Len(SubSeq(Bodies, 1, m)) = IF 1 <= m THEN m - 1 + 1 ELSE 0
        /\ \A i \in 1 .. m - 1 + 1 : SubSeq(Bodies, 1, m)[i] = Bodies[1 + i - 1]
    <3>1. 1 \in Int /\ m \in Int
      BY <1>5
    <3> QED BY <2>3, <3>1, SubSeqProperties
  <2>5. Len(SubSeq(Bodies, 1, m)) = m
    BY <1>5, <2>4
  <2>6. \A i \in 1 .. m : SubSeq(Bodies, 1, m)[i] = Body(i)
    <3> TAKE i \in 1 .. m
    <3>1. i \in 1 .. m - 1 + 1 /\ 1 + i - 1 = i /\ i \in 1 .. N
      BY <1>5, <2>2
    <3> QED BY <2>1, <2>4, <3>1
  <2>7. SubSeq(Bodies, 1, m) = [i \in 1 .. m |-> SubSeq(Bodies, 1, m)[i]]
    BY <2>4, <2>5, LenProperties
  <2> QED BY <1>7, <2>6, <2>7
<1>9. Taken(Recoverable(o), m, o)
  BY <1>5, <1>8 DEF Taken
<1> QED BY <1>5, <1>6, <1>9

LEMMA TakenAll ==
  ASSUME file \in Files, NEW em, NEW n, NEW o \in Nat, Taken(em, n, o), ~Whole(n, o)
  PROVE  em = Recoverable(o)
<1>1. PICK m \in 0 .. Len(file.records) : Taken(Recoverable(o), m, o) /\ ~Whole(m, o)
  BY RecoverableIs
<1>2. /\ n \in Nat /\ m \in Nat
      /\ em = SubSeq(Bodies, 1, n) /\ Recoverable(o) = SubSeq(Bodies, 1, m)
      /\ \A k \in 0 .. n - 1 : Whole(k, o)
      /\ \A k \in 0 .. m - 1 : Whole(k, o)
  BY <1>1 DEF Taken
<1>3. ~(n < m)
  <2>1. n < m => n \in 0 .. m - 1
    BY <1>2
  <2> QED BY <1>2, <2>1
<1>4. ~(m < n)
  <2>1. m < n => m \in 0 .. n - 1
    BY <1>2
  <2> QED BY <1>1, <1>2, <2>1
<1> QED BY <1>2, <1>3, <1>4

LEMMA TakenPart ==
  ASSUME file \in Files, NEW em, NEW n, NEW o \in Nat, Taken(em, n, o),
         NEW all, NEW m, NEW c \in Nat, Taken(all, m, c), n <= m \/ (o <= c /\ ~Whole(m, c))
  PROVE  n <= m /\ IsPrefix(em, all)
<1>1. /\ n \in Nat /\ m \in Nat /\ n \in 0 .. Len(file.records) /\ m \in 0 .. Len(file.records)
      /\ em = SubSeq(Bodies, 1, n) /\ all = SubSeq(Bodies, 1, m)
      /\ \A k \in 0 .. n - 1 : Whole(k, o)
  BY DEF Taken
<1>2. n <= m
  <2> SUFFICES ASSUME m < n, o <= c, ~Whole(m, c) PROVE FALSE
    BY <1>1
  <2>1. Whole(m, o)
    BY <1>1
  <2>2. m + 1 \in 0 .. Len(file.records)
    BY <1>1, <2>1, FileTypes DEF Whole
  <2>3. Ends(file)[m + 1] \in Nat
    BY <2>2, EndsSteps
  <2>4. Whole(m, c)
    BY <2>1, <2>3 DEF Whole
  <2> QED BY <2>4
<1>3. Len(em) = n /\ Len(all) = m
  BY TakenIsPrefix
<1>4. Bodies \in Seq(Seq(Nat \X Nat)) /\ Len(Bodies) = Len(file.records)
      /\ Len(file.records) \in Nat
  BY BodiesType, FileTypes
<1>5. SubSeq(em, 1, n) = SubSeq(Bodies, 1, n)
  BY <1>1, <1>3, TakenIsPrefix, SubSeqFull
<1>6. SubSeq(all, 1, n) = SubSeq(Bodies, 1, n)
  <2> DEFINE z == 0
  <2>1. z \in Nat /\ z <= m /\ m <= Len(Bodies) /\ z <= n /\ n <= m - z /\ z + 1 = 1
        /\ (z + z) + 1 = 1 /\ z + n = n
    BY <1>1, <1>2, <1>4
  <2> HIDE DEF z
  <2>2. SubSeq(SubSeq(Bodies, z + 1, m), z + 1, n) = SubSeq(Bodies, (z + z) + 1, z + n)
    BY <1>1, <1>4, <2>1, SubSub
  <2> QED BY <1>1, <2>1, <2>2
<1> QED BY <1>2, <1>3, <1>5, <1>6 DEF IsPrefix

-----------------------------------------------------------------------------
(***************************************************************************)
(* A call of the decoder.                                                  *)
(***************************************************************************)
(* The cells of the plain stream within reach of the first n cells. *)
Reach(n) ==
  CASE ~file.zstd -> n
    [] file.zstd /\ n < MinHeader -> 0
    [] file.zstd /\ n >= MinHeader -> Yield(file, n)

(* Between calls.  Nothing is handed out before the compression is known;
   then every whole record in the buffer is, and none that follows is broken. *)
Quiet(em, n, o) == Taken(em, n, o) /\ ~Whole(n, o) /\ ~Broken(n, o)

Between(dec, em, fd) ==
  \/ Sniffs(dec, fd) /\ fd < MagicLen /\ em = <<>>
  \/ \E b, n \in Nat : Copies(dec, fd, b, n, fd) /\ Quiet(em, n, fd)
  \/ \E b, n, o \in Nat : /\ Unzips(dec, fd, b, n, o) /\ Quiet(em, n, o)
                          /\ Len(dec.cin) < MinDecodeInput

(* When a call begins. *)
Given(dec, em, fd) ==
  \/ Sniffs(dec, fd) /\ em = <<>>
  \/ \E b, n, o \in Nat : Copies(dec, fd, b, n, o) /\ Taken(em, n, o)
  \/ \E b, n, o \in Nat : Unzips(dec, fd, b, n, o) /\ Taken(em, n, o)

(* The records handed out go from em to em1, all within reach of c cells. *)
Hands(em, em1, c) ==
  \E n, m, o, o1 \in Nat :
    /\ Taken(em, n, o) /\ Taken(em1, m, o1)
    /\ n <= m /\ o1 <= Reach(c)

(* A record within reach of c cells is broken. *)
Breaks(c) == \E m, o \in Nat : Broken(m, o) /\ o <= Reach(c)

(* A corrupt block has arrived within c cells. *)
Corrupts(c) == file.zstd /\ file.corrupt # 0 /\ file.blocks[file.corrupt].disk <= c

LEMMA ReachGrows ==
  ASSUME file \in Files, NEW n \in Nat, NEW k \in Nat, n <= k
  PROVE  Reach(n) \in Nat /\ Reach(k) \in Nat /\ Reach(n) <= Reach(k)
<1>1. MinHeader \in Nat
  BY SizesAssumption
<1>2. CASE ~file.zstd
  BY <1>2 DEF Reach
<1>3. CASE file.zstd
  <2>1. /\ Yield(file, n) \in Nat /\ Yield(file, k) \in Nat
        /\ Yield(file, n) <= Yield(file, k)
    BY <1>3, YieldShape, YieldGrows
  <2>2. Reach(n) = IF n < MinHeader THEN 0 ELSE Yield(file, n)
    BY <1>1, <1>3 DEF Reach
  <2>3. Reach(k) = IF k < MinHeader THEN 0 ELSE Yield(file, k)
    BY <1>1, <1>3 DEF Reach
  <2> QED BY <1>1, <2>1, <2>2, <2>3
<1> QED BY <1>2, <1>3

(* What the decoder holds is within reach. *)
LEMMA HeldIsReached ==
  ASSUME file \in Files, NEW dec, NEW fd, NEW b, NEW n, NEW o, Unzips(dec, fd, b, n, o)
  PROVE  /\ o \in Nat /\ Yield(file, dec.read) \in Nat /\ fd \in Nat /\ dec.read \in Nat
         /\ o <= Yield(file, dec.read) /\ Yield(file, dec.read) <= Reach(fd)
<1>1. /\ dec \in Decoder /\ fd \in 0 .. DiskLen(file) /\ file.zstd
      /\ OutAt(dec, b, n, o) /\ dec.read <= fd
      /\ o <= Yield(file, dec.read)
      /\ dec.started => fd >= MinHeader
      /\ ~dec.started => dec.read = 0
  BY DEF Unzips
<1>2. o \in Nat /\ fd \in Nat /\ dec.read \in Nat
  BY <1>1, DiskShape DEF OutAt, Decoder
<1>3. Yield(file, dec.read) \in Nat /\ Yield(file, fd) \in Nat
  <2>1. \A n1 \in Nat : Yield(file, n1) \in 0 .. Len(Plain(file))
    BY <1>1, YieldShape
  <2>2. \A x : x \in 0 .. Len(Plain(file)) => x \in Nat
    OBVIOUS
  <2> QED BY <1>2, <2>1, <2>2
<1>4. Yield(file, dec.read) <= Reach(fd)
  <2>1. CASE dec.started
    <3>1. Reach(fd) = Yield(file, fd)
      BY <1>1, <1>2, <2>1, SizesAssumption DEF Reach
    <3> QED BY <1>1, <1>2, <3>1, YieldGrows
  <2>2. CASE ~dec.started
    <3>1. Yield(file, dec.read) = 0
      BY <1>1, <2>2, YieldEnds
    <3>2. Reach(fd) \in Nat
      BY <1>2, ReachGrows
    <3> QED BY <3>1, <3>2
  <2> QED BY <2>1, <2>2
<1> QED BY <1>1, <1>2, <1>3, <1>4

(* What has been taken out of fewer cells has been taken out of more. *)
LEMMA TakenGrows ==
  ASSUME file \in Files, NEW em, NEW n, NEW o \in Nat, NEW o1 \in Nat, o <= o1, Taken(em, n, o)
  PROVE  Taken(em, n, o1)
<1> SUFFICES ASSUME NEW k \in 0 .. n - 1 PROVE Whole(k, o1)
  BY DEF Taken
<1>1. Whole(k, o) /\ n \in 0 .. Len(file.records)
  BY DEF Taken
<1>2. k + 1 \in 0 .. Len(file.records)
  BY <1>1, FileTypes
<1>3. Ends(file)[k + 1] \in Nat
  BY <1>2, EndsSteps
<1> QED BY <1>1, <1>3 DEF Whole

(* A call that copies. *)
LEMMA CallCopies ==
  ASSUME file \in Files, NEW dec, NEW em, NEW fd, NEW b, NEW n, NEW o, NEW finishing \in BOOLEAN,
         Copies(dec, fd, b, n, o), Taken(em, n, o)
  PROVE  /\ ~FillFails(dec, finishing)
         /\ \E m, b1 \in Nat :
              /\ n <= m
              /\ Copies(Scanned(Fill(dec, finishing)), fd, b1, m, fd)
              /\ Taken(em \o Found(Fill(dec, finishing)), m, fd)
              /\ ~Whole(m, fd)
              /\ ScanFails(Fill(dec, finishing)) <=> Broken(m, fd)
              /\ Len(Scanned(Fill(dec, finishing)).out) - Scanned(Fill(dec, finishing)).outPos
                   = fd - Ends(file)[m]
<1> DEFINE filled == Fill(dec, finishing)
           new == Scanned(filled)
<1>1. Copies(filled, fd, b, n, fd) /\ ~FillFails(dec, finishing)
  BY FillCopies
<1>2. o \in Nat /\ fd \in Nat /\ o <= fd
  BY DiskShape DEF Copies, OutAt
<1>3. Taken(em, n, fd)
  BY <1>2, TakenGrows
<1> HIDE DEF filled
<1>4. /\ filled \in Decoder /\ OutAt(filled, b, n, fd) /\ fd \in 0 .. DiskLen(file)
      /\ filled.compression = "none" /\ ~file.zstd
      /\ filled.cin = SubSeq(Disk(file), fd + 1, fd)
  BY <1>1 DEF Copies
<1>5. PICK m \in 0 .. Len(file.records), b1 \in Nat :
        /\ n <= m
        /\ Taken(em \o Found(filled), m, fd)
        /\ ~Whole(m, fd)
        /\ ScanFails(filled) <=> Broken(m, fd)
        /\ OutAt(Scanned(filled), b1, m, fd)
        /\ Kept(filled, Scanned(filled))
        /\ Len(Scanned(filled).out) - Scanned(filled).outPos = fd - Ends(file)[m]
  BY <1>3, <1>4, ScanStep
<1>6. Copies(new, fd, b1, m, fd)
  BY <1>2, <1>4, <1>5 DEF Copies, Kept
<1>7. m \in Nat
  OBVIOUS
<1> QED BY <1>1, <1>5, <1>6, <1>7 DEF filled

(* The call leaves o1 cells in the buffer, all scanned up to record m. *)
Leaves(dec, em, fd, finishing, m, b1, o1) ==
  LET filled == Fill(dec, finishing)
      new == Scanned(filled)
  IN  /\ Unzips(new, fd, b1, m, o1)
      /\ Taken(em \o Found(filled), m, o1)
      /\ ~Whole(m, o1)
      /\ ScanFails(filled) <=> Broken(m, o1)
      /\ ~finishing => Len(new.cin) < MinDecodeInput
      /\ finishing /\ ~new.started => fd < MinHeader
      /\ finishing /\ new.started =>
           /\ Yield(file, new.read) = Yield(file, fd)
           /\ new.finished <=> fd = DiskLen(file)

(* A call that decompresses. *)
LEMMA CallUnzips ==
  ASSUME file \in Files, NEW dec, NEW em, NEW fd, NEW b, NEW n, NEW o, NEW finishing \in BOOLEAN,
         Unzips(dec, fd, b, n, o), Taken(em, n, o)
  PROVE  /\ FillFails(dec, finishing) => Corrupts(fd)
         /\ ~FillFails(dec, finishing) =>
              \E m, b1, o1 \in Nat : n <= m /\ Leaves(dec, em, fd, finishing, m, b1, o1)
<1> DEFINE filled == Fill(dec, finishing)
           new == Scanned(filled)
<1>1. FillFails(dec, finishing) => Corrupts(fd)
  BY FillUnzips DEF Corrupts, Unzips
<1> SUFFICES ASSUME ~FillFails(dec, finishing)
             PROVE \E m, b1, o1 \in Nat : n <= m /\ Leaves(dec, em, fd, finishing, m, b1, o1)
  BY <1>1
<1>2. PICK o1 \in Nat :
        /\ o <= o1
        /\ Unzips(filled, fd, b, n, o1)
        /\ ~finishing => Len(filled.cin) < MinDecodeInput
        /\ finishing /\ ~filled.started => fd < MinHeader
        /\ finishing /\ filled.started =>
             /\ Yield(file, filled.read) = Yield(file, fd)
             /\ filled.finished <=> fd = DiskLen(file)
  BY FillUnzips
<1>3. o \in Nat
  BY HeldIsReached
<1>4. Taken(em, n, o1)
  BY <1>2, <1>3, TakenGrows
<1> HIDE DEF filled
<1>5. /\ filled \in Decoder /\ fd \in 0 .. DiskLen(file)
      /\ filled.compression = "zstd" /\ file.zstd
      /\ OutAt(filled, b, n, o1)
      /\ filled.read <= fd
      /\ filled.cin = SubSeq(Disk(file), filled.read + 1, fd)
      /\ o1 <= Yield(file, filled.read)
      /\ filled.window = SubSeq(Plain(file), o1 + 1, Yield(file, filled.read))
      /\ filled.finished <=> filled.read = DiskLen(file)
      /\ filled.finished => o1 = Yield(file, filled.read)
      /\ filled.started => fd >= MinHeader
      /\ ~filled.started => filled.read = 0
  BY <1>2 DEF Unzips
<1>6. PICK m \in 0 .. Len(file.records), b1 \in Nat :
        /\ n <= m
        /\ Taken(em \o Found(filled), m, o1)
        /\ ~Whole(m, o1)
        /\ ScanFails(filled) <=> Broken(m, o1)
        /\ OutAt(Scanned(filled), b1, m, o1)
        /\ Kept(filled, Scanned(filled))
        /\ Len(Scanned(filled).out) - Scanned(filled).outPos = o1 - Ends(file)[m]
  BY <1>4, <1>5, ScanStep
<1>7. m \in Nat
  OBVIOUS
<1> HIDE DEF new
<1>8. /\ new \in Decoder /\ new.compression = filled.compression
      /\ new.started = filled.started /\ new.finished = filled.finished
      /\ new.read = filled.read /\ new.cin = filled.cin /\ new.window = filled.window
      /\ OutAt(new, b1, m, o1)
  BY <1>6 DEF Kept, new
<1>9. Unzips(new, fd, b1, m, o1)
  BY <1>5, <1>8 DEF Unzips
<1>10. /\ ~finishing => Len(new.cin) < MinDecodeInput
       /\ finishing /\ ~new.started => fd < MinHeader
       /\ finishing /\ new.started =>
            /\ Yield(file, new.read) = Yield(file, fd)
            /\ new.finished <=> fd = DiskLen(file)
  BY <1>2, <1>8
<1>11. Leaves(dec, em, fd, finishing, m, b1, o1)
  BY <1>6, <1>9, <1>10 DEF Leaves, filled, new
<1> QED BY <1>6, <1>7, <1>11

(* Nothing has been handed out at the start. *)
LEMMA TakenNone ==
  ASSUME file \in Files, NEW o
  PROVE  Taken(<<>>, 0, o)
<1>1. SubSeq(Bodies, 1, 0) = <<>>
  BY BodiesType, SubSeqEmpty
<1>2. 0 \in 0 .. Len(file.records)
  BY FileTypes
<1>3. \A k \in 0 .. 0 - 1 : Whole(k, o)
  OBVIOUS
<1> QED BY <1>1, <1>2, <1>3 DEF Taken

(* A decoder that does not know the compression has an empty buffer. *)
LEMMA SniffsHolds ==
  ASSUME file \in Files, NEW dec, NEW fd, Sniffs(dec, fd)
  PROVE  OutAt(dec, 0, 0, 0) /\ dec \in Decoder /\ fd \in Nat
<1>1. /\ Plain(file) \in Seq(Nat \X Nat) /\ Len(Plain(file)) \in Nat
      /\ Ends(file)[0] = 0
  BY EndsSteps
<1>2. SubSeq(Plain(file), 0 + 1, 0) = <<>>
  BY <1>1, SubSeqEmpty
<1>3. 0 \in 0 .. Len(file.records)
  BY FileTypes
<1>4. /\ dec \in Decoder /\ fd \in 0 .. DiskLen(file)
      /\ dec.out = <<>> /\ dec.outPos = 0
  BY DEF Sniffs
<1>5. OutAt(dec, 0, 0, 0)
  BY <1>1, <1>2, <1>3, <1>4 DEF OutAt
<1> QED BY <1>4, <1>5, DiskShape

(* Scanning an empty buffer finds nothing. *)
LEMMA ScanNothing ==
  ASSUME file \in Files, NEW dec \in Decoder, OutAt(dec, 0, 0, 0)
  PROVE  /\ Found(dec) = <<>> /\ ~ScanFails(dec)
         /\ Kept(dec, Scanned(dec))
         /\ Scanned(dec).out = <<>> /\ Scanned(dec).outPos = 0
<1> DEFINE E == Ends(file)
           new == Scanned(dec)
<1>1. PICK m \in 0 .. Len(file.records), b1 \in Nat :
        /\ 0 <= m
        /\ Taken(<<>> \o Found(dec), m, 0)
        /\ ~Whole(m, 0)
        /\ ScanFails(dec) <=> Broken(m, 0)
        /\ OutAt(Scanned(dec), b1, m, 0)
        /\ Kept(dec, Scanned(dec))
        /\ Len(Scanned(dec).out) - Scanned(dec).outPos = 0 - E[m]
  BY TakenNone, ScanStep
<1>2. /\ E[0] = 0 /\ \A i, k \in 0 .. Len(file.records) : i < k => E[i] < E[k]
      /\ \A i \in 0 .. Len(file.records) : E[i] \in Nat
  BY PlainShape, EndsSteps
<1>3. Len(file.records) \in Nat \ {0}
  BY FileTypes
<1> HIDE DEF E, new
<1>4. m = 0
  <2>1. E[m] <= 0
    BY <1>1 DEF OutAt, E
  <2> QED BY <1>1, <1>2, <1>3, <2>1
<1>5. Found(dec) = <<>>
  <2>1. <<>> \o Found(dec) = SubSeq(Bodies, 1, 0)
    BY <1>1, <1>4 DEF Taken
  <2>2. SubSeq(Bodies, 1, 0) = <<>>
    BY BodiesType, SubSeqEmpty
  <2>3. PICK k \in 0 .. Len(file.records) : Found(dec) = SubSeq(Bodies, 0 + 1, k)
    <3>1. PICK k \in 0 .. Len(file.records) :
            /\ E[k] <= 0
            /\ \A i \in 0 .. k - 1 : Whole(i, 0)
            /\ ~Whole(k, 0)
            /\ ScanEnd(dec) = E[k] - 0
            /\ Found(dec) = SubSeq(Bodies, 0 + 1, k)
            /\ ScanFails(dec) <=> Broken(k, 0)
      BY ScanFrom DEF E
    <3> QED BY <3>1
  <2>4. Bodies \in Seq(Seq(Nat \X Nat)) /\ Len(Bodies) = Len(file.records)
    BY BodiesType
  <2>5. 0 \in Nat /\ k \in Nat /\ 0 <= k /\ k <= Len(Bodies)
    BY <1>3, <2>4
  <2>6. Found(dec) \in Seq(Seq(Nat \X Nat))
    BY <2>3, <2>4, <2>5, PieceLen
  <2> QED BY <2>1, <2>2, <2>6, ConcatEmptySeq
<1>6. ~ScanFails(dec)
  <2>1. file.records[0 + 1].prefix \in Nat \ {0}
    BY <1>3, FileTypes
  <2>2. ~Broken(0, 0)
    BY <1>2, <2>1 DEF Broken, E
  <2> QED BY <1>1, <1>4, <2>2
<1>7. new.out = <<>> /\ new.outPos = 0
  <2>1. b1 + new.outPos = 0 /\ new.outPos \in Nat /\ new.out = SubSeq(Plain(file), b1 + 1, 0)
    BY <1>1, <1>2, <1>4 DEF OutAt, E, new
  <2>2. b1 = 0 /\ new.outPos = 0
    BY <2>1
  <2>3. SubSeq(Plain(file), 0 + 1, 0) = <<>>
    BY EndsSteps, SubSeqEmpty
  <2> QED BY <2>1, <2>2, <2>3
<1> QED BY <1>1, <1>5, <1>6, <1>7 DEF new

(* Once the compression is known, looking for it again changes nothing. *)
LEMMA DetectOnce ==
  ASSUME NEW dec, NEW finishing, Detect(dec, finishing).compression # "unknown"
  PROVE  /\ Fill(Detect(dec, finishing), finishing) = Fill(dec, finishing)
         /\ FillFails(Detect(dec, finishing), finishing) <=> FillFails(dec, finishing)
<1> DEFINE known == Detect(dec, finishing)
<1>1. Detect(known, finishing) = known
  <2> HIDE DEF known
  <2> QED BY DEF Detect, known
<1>2. Fill(dec, finishing) =
        CASE known.compression = "unknown" -> known
          [] known.compression = "none" -> [known EXCEPT !.out = @ \o known.cin, !.cin = <<>>]
          [] OTHER -> IF Waits(known, finishing) THEN known
                      ELSE Decode([known EXCEPT !.started = TRUE])
  BY DEF Fill
<1>3. FillFails(dec, finishing) <=>
        known.compression = "zstd" /\ ~Waits(known, finishing) /\ ~Decodable(known)
  BY DEF FillFails
<1> HIDE DEF known
<1>4. Fill(known, finishing) =
        CASE known.compression = "unknown" -> known
          [] known.compression = "none" -> [known EXCEPT !.out = @ \o known.cin, !.cin = <<>>]
          [] OTHER -> IF Waits(known, finishing) THEN known
                      ELSE Decode([known EXCEPT !.started = TRUE])
  BY <1>1 DEF Fill
<1>5. FillFails(known, finishing) <=>
        known.compression = "zstd" /\ ~Waits(known, finishing) /\ ~Decodable(known)
  BY <1>1 DEF FillFails
<1> QED BY <1>2, <1>3, <1>4, <1>5 DEF known

(* What a call with fd cells does to a decoder and to the records handed out. *)
Outcome(dec, em, fd) ==
  /\ FillFails(dec, FALSE) => Corrupts(fd)
  /\ ~FillFails(dec, FALSE) =>
       /\ Hands(em, em \o Found(Fill(dec, FALSE)), fd)
       /\ ScanFails(Fill(dec, FALSE)) => Breaks(fd)
       /\ ~ScanFails(Fill(dec, FALSE)) =>
            Between(Scanned(Fill(dec, FALSE)), em \o Found(Fill(dec, FALSE)), fd)

LEMMA PushCopies ==
  ASSUME file \in Files, NEW dec, NEW em, NEW fd, NEW b, NEW n, NEW o,
         Copies(dec, fd, b, n, o), Taken(em, n, o)
  PROVE  Outcome(dec, em, fd)
<1> DEFINE filled == Fill(dec, FALSE)
           new == Scanned(filled)
           em1 == em \o Found(filled)
<1>1. ~FillFails(dec, FALSE)
  BY CallCopies
<1>2. PICK m, b1 \in Nat :
        /\ n <= m
        /\ Copies(new, fd, b1, m, fd)
        /\ Taken(em1, m, fd)
        /\ ~Whole(m, fd)
        /\ ScanFails(filled) <=> Broken(m, fd)
  <2>1. FALSE \in BOOLEAN
    OBVIOUS
  <2> HIDE DEF new
  <2> QED BY <2>1, CallCopies DEF new
<1>3. ~file.zstd /\ o \in Nat /\ fd \in Nat /\ o <= fd /\ n \in 0 .. Len(file.records)
  BY DiskShape DEF Copies, OutAt
<1>4. Reach(fd) = fd /\ n \in Nat
  BY <1>3, FileTypes DEF Reach
<1> HIDE DEF new, em1, filled
<1>5. Hands(em, em1, fd)
  BY <1>2, <1>3, <1>4 DEF Hands
<1>6. ScanFails(filled) => Breaks(fd)
  BY <1>2, <1>3, <1>4 DEF Breaks
<1>7. ~ScanFails(filled) => Between(new, em1, fd)
  BY <1>2 DEF Between, Quiet
<1> QED BY <1>1, <1>5, <1>6, <1>7 DEF Outcome, new, em1, filled

LEMMA PushUnzips ==
  ASSUME file \in Files, NEW dec, NEW em, NEW fd, NEW b, NEW n, NEW o,
         Unzips(dec, fd, b, n, o), Taken(em, n, o)
  PROVE  Outcome(dec, em, fd)
<1> DEFINE filled == Fill(dec, FALSE)
           new == Scanned(filled)
           em1 == em \o Found(filled)
<1>1. FillFails(dec, FALSE) => Corrupts(fd)
  BY CallUnzips
<1>2. ASSUME ~FillFails(dec, FALSE)
      PROVE  /\ Hands(em, em1, fd)
             /\ ScanFails(filled) => Breaks(fd)
             /\ ~ScanFails(filled) => Between(new, em1, fd)
  <2>1. PICK m, b1, o1 \in Nat :
          /\ n <= m
          /\ Unzips(new, fd, b1, m, o1)
          /\ Taken(em1, m, o1)
          /\ ~Whole(m, o1)
          /\ ScanFails(filled) <=> Broken(m, o1)
          /\ Len(new.cin) < MinDecodeInput
    <3>1. PICK m, b1, o1 \in Nat : n <= m /\ Leaves(dec, em, fd, FALSE, m, b1, o1)
      BY <1>2, CallUnzips
    <3> QED BY <3>1 DEF Leaves
  <2>2. n \in Nat /\ o \in Nat
    <3>1. n \in 0 .. Len(file.records) /\ o \in Nat
      BY DEF Unzips, OutAt
    <3> QED BY <3>1, FileTypes
  <2> HIDE DEF new, em1, filled
  <2>3. o1 <= Reach(fd)
    <3>1. /\ o1 <= Yield(file, new.read) /\ Yield(file, new.read) <= Reach(fd)
          /\ Yield(file, new.read) \in Nat /\ fd \in Nat
      BY <2>1, HeldIsReached
    <3>2. Reach(fd) \in Nat
      BY <3>1, ReachGrows
    <3> QED BY <3>1, <3>2
  <2>4. Hands(em, em1, fd)
    BY <2>1, <2>2, <2>3 DEF Hands
  <2>5. ScanFails(filled) => Breaks(fd)
    BY <2>1, <2>3 DEF Breaks
  <2>6. ~ScanFails(filled) => Between(new, em1, fd)
    BY <2>1 DEF Between, Quiet
  <2> QED BY <2>4, <2>5, <2>6
<1> QED BY <1>1, <1>2 DEF Outcome

(* While the compression is not known, a push does nothing. *)
LEMMA PushWaits ==
  ASSUME file \in Files, NEW dec, NEW fd, Sniffs(dec, fd), fd < MagicLen
  PROVE  Outcome(dec, <<>>, fd)
<1>1. Len(dec.cin) = fd /\ MagicLen \in Nat /\ dec.compression = "unknown" /\ fd \in Nat
  <2>1. /\ dec.cin = SubSeq(Disk(file), 0 + 1, fd) /\ fd \in 0 .. DiskLen(file)
        /\ dec.compression = "unknown"
    BY DEF Sniffs
  <2>2. Disk(file) \in Seq(Nat \X Nat) /\ Len(Disk(file)) = DiskLen(file) /\ DiskLen(file) \in Nat
    BY DiskShape
  <2>3. 0 \in Nat /\ fd \in Nat /\ 0 <= fd /\ fd <= Len(Disk(file)) /\ fd - 0 = fd
    BY <2>1, <2>2
  <2> QED BY <2>1, <2>2, <2>3, PieceLen, SizesAssumption
<1>2. Detect(dec, FALSE) = dec
  BY <1>1 DEF Detect
<1>3. Fill(dec, FALSE) = dec /\ ~FillFails(dec, FALSE)
  BY <1>1, <1>2 DEF Fill, FillFails
<1>4. OutAt(dec, 0, 0, 0) /\ dec \in Decoder
  BY SniffsHolds
<1>5. /\ Found(dec) = <<>> /\ ~ScanFails(dec)
      /\ Kept(dec, Scanned(dec))
      /\ Scanned(dec).out = <<>> /\ Scanned(dec).outPos = 0
  BY <1>4, ScanNothing
<1>6. Sniffs(Scanned(dec), fd)
  BY <1>5 DEF Sniffs, Kept
<1>7. <<>> \o Found(dec) = <<>>
  BY <1>5
<1>8. Between(Scanned(dec), <<>>, fd)
  BY <1>6 DEF Between
<1>9. Hands(<<>>, <<>>, fd)
  <2>1. Taken(<<>>, 0, 0)
    BY TakenNone
  <2>2. Reach(fd) \in Nat
    BY <1>1, ReachGrows
  <2>3. 0 <= Reach(fd) /\ 0 <= 0
    BY <2>2
  <2> QED BY <2>1, <2>3 DEF Hands
<1> QED BY <1>3, <1>5, <1>7, <1>8, <1>9 DEF Outcome

LEMMA PushResult ==
  ASSUME file \in Files, NEW dec, NEW em, NEW fd, Given(dec, em, fd)
  PROVE  Outcome(dec, em, fd)
<1>1. CASE Sniffs(dec, fd) /\ em = <<>> /\ fd < MagicLen
  BY <1>1, PushWaits
<1>2. CASE Sniffs(dec, fd) /\ em = <<>> /\ fd >= MagicLen
  <2> DEFINE known == Detect(dec, FALSE)
  <2>1. /\ file.zstd => Unzips(known, fd, 0, 0, 0)
        /\ ~file.zstd => Copies(known, fd, 0, 0, 0)
    BY <1>2, DetectSniffs
  <2>2. known.compression # "unknown"
    <3> HIDE DEF known
    <3> QED BY <2>1 DEF Unzips, Copies
  <2>3. /\ Fill(known, FALSE) = Fill(dec, FALSE)
        /\ FillFails(known, FALSE) <=> FillFails(dec, FALSE)
    BY <2>2, DetectOnce
  <2>4. Taken(em, 0, 0)
    BY <1>2, TakenNone
  <2>5. Outcome(known, em, fd)
    <3> HIDE DEF known
    <3> QED BY <2>1, <2>4, PushCopies, PushUnzips
  <2> HIDE DEF known
  <2> QED BY <2>3, <2>5 DEF Outcome
<1>3. CASE \E b, n, o \in Nat : Copies(dec, fd, b, n, o) /\ Taken(em, n, o)
  BY <1>3, PushCopies
<1>4. CASE \E b, n, o \in Nat : Unzips(dec, fd, b, n, o) /\ Taken(em, n, o)
  BY <1>4, PushUnzips
<1>5. Sniffs(dec, fd) => fd \in Nat /\ MagicLen \in Nat
  BY SniffsHolds, SizesAssumption
<1> QED BY <1>1, <1>2, <1>3, <1>4, <1>5 DEF Given

(* A push appends to the input. *)
LEMMA Pushed ==
  ASSUME file \in Files, NEW dec, NEW em, NEW fd, Between(dec, em, fd),
         NEW n \in Nat, fd + n <= DiskLen(file)
  PROVE  Given([dec EXCEPT !.cin = @ \o SubSeq(Disk(file), fd + 1, fd + n)], em, fd + n)
<1> DEFINE D == Disk(file)
           piece == SubSeq(D, fd + 1, fd + n)
           new == [dec EXCEPT !.cin = @ \o piece]
<1>1. D \in Seq(Nat \X Nat) /\ Len(D) = DiskLen(file) /\ DiskLen(file) \in Nat
  BY DiskShape
<1>2. fd \in 0 .. DiskLen(file) /\ dec \in Decoder
  BY DEF Between, Sniffs, Copies, Unzips
<1>3. fd + n \in 0 .. DiskLen(file) /\ fd \in Nat
  BY <1>1, <1>2
<1>4. piece \in Seq(Nat \X Nat)
  BY <1>1, <1>3, PieceLen
<1> HIDE DEF piece
<1>5. /\ new \in Decoder
      /\ new.cin = dec.cin \o piece
      /\ new.compression = dec.compression /\ new.started = dec.started
      /\ new.finished = dec.finished /\ new.read = dec.read /\ new.window = dec.window
      /\ new.out = dec.out /\ new.outPos = dec.outPos
  <2> DEFINE cells == dec.cin \o piece
             other == [dec EXCEPT !.cin = cells]
  <2>1. dec.cin \in Seq(Nat \X Nat)
    BY <1>2 DEF Decoder
  <2>2. cells \in Seq(Nat \X Nat)
    BY <1>4, <2>1, ConcatProperties
  <2>3. new = other
    OBVIOUS
  <2> HIDE DEF cells, new
  <2>4. other \in Decoder
    BY <1>2, <2>2 DEF Decoder
  <2>5. /\ other.cin = cells
        /\ other.compression = dec.compression /\ other.started = dec.started
        /\ other.finished = dec.finished /\ other.read = dec.read /\ other.window = dec.window
        /\ other.out = dec.out /\ other.outPos = dec.outPos
    BY <1>2 DEF Decoder
  <2> QED BY <2>3, <2>4, <2>5 DEF cells
<1>6. ASSUME NEW k \in Nat, k <= fd, dec.cin = SubSeq(D, k + 1, fd)
      PROVE  new.cin = SubSeq(D, k + 1, fd + n)
  <2>1. k + 1 \in 1 .. Len(D) + 1 /\ fd \in (k + 1) - 1 .. Len(D) /\ fd + n \in fd .. Len(D)
    BY <1>1, <1>3, <1>6
  <2>2. SubSeq(D, k + 1, fd) \o SubSeq(D, fd + 1, fd + n) = SubSeq(D, k + 1, fd + n)
    BY <1>1, <2>1, ConcatAdjacentSubSeq
  <2> QED BY <1>5, <1>6, <2>2 DEF piece
<1> HIDE DEF new, D
<1>7. CASE Sniffs(dec, fd) /\ fd < MagicLen /\ em = <<>>
  <2>1. dec.cin = SubSeq(D, 0 + 1, fd) /\ 0 \in Nat /\ 0 <= fd
    BY <1>3, <1>7 DEF Sniffs, D
  <2>2. new.cin = SubSeq(D, 0 + 1, fd + n)
    BY <1>6, <2>1
  <2>3. /\ dec.compression = "unknown" /\ ~dec.started /\ ~dec.finished
        /\ dec.read = 0 /\ dec.window = <<>> /\ dec.out = <<>> /\ dec.outPos = 0
    BY <1>7 DEF Sniffs
  <2>4. 0 + 1 = 1
    OBVIOUS
  <2>5. Sniffs(new, fd + n)
    BY <1>3, <1>5, <2>2, <2>3, <2>4, Zenon DEF Sniffs, D
  <2> QED BY <1>7, <2>5 DEF Given, new, D, piece
<1>8. ASSUME NEW b \in Nat, NEW m \in Nat, Copies(dec, fd, b, m, fd), Quiet(em, m, fd)
      PROVE  Given(new, em, fd + n)
  <2>1. new.cin = SubSeq(D, fd + 1, fd + n)
    <3>1. dec.cin = SubSeq(D, fd + 1, fd)
      BY <1>8 DEF Copies, D
    <3> QED BY <1>3, <1>6, <3>1
  <2>2. OutAt(new, b, m, fd)
    BY <1>5, <1>8 DEF Copies, OutAt
  <2>3. dec.compression = "none" /\ ~file.zstd
    BY <1>8 DEF Copies
  <2>4. fd <= fd + n
    BY <1>3
  <2>5. Copies(new, fd + n, b, m, fd)
    BY <1>3, <1>5, <2>1, <2>2, <2>3, <2>4, Zenon DEF Copies, D
  <2> QED BY <1>3, <1>8, <2>5 DEF Given, Quiet
<1>9. ASSUME NEW b \in Nat, NEW m \in Nat, NEW o \in Nat, Unzips(dec, fd, b, m, o), Quiet(em, m, o)
      PROVE  Given(new, em, fd + n)
  <2>1. new.cin = SubSeq(D, new.read + 1, fd + n)
    <3>1. dec.cin = SubSeq(D, dec.read + 1, fd) /\ dec.read <= fd
      BY <1>9 DEF Unzips, D
    <3>2. dec.read \in Nat
      BY <1>2 DEF Decoder
    <3> QED BY <1>5, <1>6, <3>1, <3>2
  <2>2. OutAt(new, b, m, o)
    BY <1>5, <1>9 DEF Unzips, OutAt
  <2>3. dec.read <= fd + n /\ (fd >= MinHeader => fd + n >= MinHeader)
    <3>1. dec.read \in Nat /\ dec.read <= fd /\ MinHeader \in Nat
      BY <1>2, <1>9, SizesAssumption DEF Decoder, Unzips
    <3> QED BY <1>3, <3>1
  <2>4. Unzips(new, fd + n, b, m, o)
    BY <1>3, <1>5, <1>9, <2>1, <2>2, <2>3 DEF Unzips, D
  <2> QED BY <1>9, <2>4 DEF Given, Quiet
<1> QED BY <1>7, <1>8, <1>9 DEF Between, new, D, piece

-----------------------------------------------------------------------------
(***************************************************************************)
(* The end of the file.                                                    *)
(***************************************************************************)
(* The decoder after the first scan of finish, whether a last piece is
   flushed out of it, and the decoder that is scanned again. *)
First(dec) == Scanned(Fill(dec, TRUE))
Flushes(dec) == Incomplete(First(dec)) /\ First(dec).started
AfterFlush(dec) == IF Flushes(dec) THEN Flushed(First(dec)) ELSE First(dec)

(* The records handed out by then. *)
AtFirst(dec, em) == em \o Found(Fill(dec, TRUE))
AtLast(dec, em) == AtFirst(dec, em) \o (IF Flushes(dec) THEN Found(AfterFlush(dec)) ELSE <<>>)

(* What finish calls truncated, and what is. *)
Truncated(dec) ==
  Incomplete(First(dec)) \/ Len(Scanned(AfterFlush(dec)).out) > Scanned(AfterFlush(dec)).outPos
Short ==
  IF file.zstd THEN size > 0 /\ size < DiskLen(file)
  ELSE \A i \in 1 .. Len(file.records) : size > 0 /\ size # EndOf(i)

(* What finish does. *)
Completes(dec, em) ==
  /\ \E m \in Nat : Taken(AtLast(dec, em), m, Reach(size)) /\ ~Whole(m, Reach(size))
  /\ Truncated(dec) <=> Short
Finishes(dec, em) ==
  /\ FillFails(dec, TRUE) => Corrupts(size)
  /\ ~FillFails(dec, TRUE) =>
       /\ Hands(em, AtFirst(dec, em), size)
       /\ ScanFails(Fill(dec, TRUE)) => Breaks(size)
       /\ ~ScanFails(Fill(dec, TRUE)) =>
            /\ Hands(em, AtLast(dec, em), size)
            /\ ScanFails(AfterFlush(dec)) => Breaks(size)
            /\ ~ScanFails(AfterFlush(dec)) => Completes(dec, em)

(* A second scan of what has been scanned finds nothing more. *)
LEMMA Rescan ==
  ASSUME file \in Files, NEW dec \in Decoder, NEW b, NEW m, NEW o, OutAt(dec, b, m, o),
         NEW em, Taken(em, m, o), ~Whole(m, o)
  PROVE  /\ ScanFails(dec) <=> Broken(m, o)
         /\ Len(Scanned(dec).out) - Scanned(dec).outPos = o - Ends(file)[m]
         /\ Len(Scanned(dec).out) \in Nat /\ Scanned(dec).outPos \in Nat
<1>1. PICK k \in 0 .. Len(file.records), b1 \in Nat :
        /\ m <= k
        /\ Taken(em \o Found(dec), k, o)
        /\ ~Whole(k, o)
        /\ ScanFails(dec) <=> Broken(k, o)
        /\ OutAt(Scanned(dec), b1, k, o)
        /\ Kept(dec, Scanned(dec))
        /\ Len(Scanned(dec).out) - Scanned(dec).outPos = o - Ends(file)[k]
  BY ScanStep
<1>2. k = m
  <2>1. m \in 0 .. Len(file.records)
    BY DEF OutAt
  <2>2. m < k => m \in 0 .. k - 1
    BY <2>1, FileTypes
  <2>3. m < k => Whole(m, o)
    BY <1>1, <2>2 DEF Taken
  <2>4. m \in Nat /\ k \in Nat
    BY <2>1, FileTypes
  <2> QED BY <1>1, <2>3, <2>4
<1>3. Scanned(dec) \in Decoder
  BY <1>1 DEF Kept
<1>4. Scanned(dec).out \in Seq(Nat \X Nat) /\ Scanned(dec).outPos \in Nat
  BY <1>3 DEF Decoder
<1> QED BY <1>1, <1>2, <1>4, LenProperties

(* finish when it flushes nothing. *)
LEMMA FinishesAtOnce ==
  ASSUME file \in Files, size \in Nat, NEW dec, NEW em,
         ~FillFails(dec, TRUE), ~Flushes(dec),
         NEW n \in Nat, NEW o0 \in Nat, Taken(em, n, o0),
         NEW b, NEW m \in Nat, NEW o \in Nat, n <= m,
         First(dec) \in Decoder, OutAt(First(dec), b, m, o),
         Taken(AtFirst(dec, em), m, o), ~Whole(m, o),
         ScanFails(Fill(dec, TRUE)) <=> Broken(m, o),
         o <= Reach(size), ~Broken(m, o) => ~Whole(m, Reach(size)),
         ~Broken(m, o) => (Incomplete(First(dec)) \/ o > Ends(file)[m] <=> Short)
  PROVE  Finishes(dec, em)
<1> DEFINE em1 == AtFirst(dec, em)
           first == First(dec)
           end == Scanned(first)
<1>1. AfterFlush(dec) = first
  BY DEF AfterFlush
<1>2. AtLast(dec, em) = em1
  <2>1. em1 \in Seq(Seq(Nat \X Nat))
    BY TakenIsPrefix
  <2>2. AtLast(dec, em) = em1 \o <<>>
    BY DEF AtLast
  <2> HIDE DEF em1
  <2> QED BY <2>1, <2>2, ConcatEmptySeq
<1>3. Reach(size) \in Nat
  BY ReachGrows
<1>4. Hands(em, em1, size)
  BY DEF Hands
<1>5. Broken(m, o) => Breaks(size)
  BY DEF Breaks
<1> HIDE DEF first
<1>6. /\ ScanFails(first) <=> Broken(m, o)
      /\ Len(end.out) - end.outPos = o - Ends(file)[m]
      /\ Len(end.out) \in Nat /\ end.outPos \in Nat
  BY Rescan DEF first
<1> HIDE DEF em1, end
<1>7. ASSUME ~Broken(m, o) PROVE Completes(dec, em)
  <2>1. Taken(AtLast(dec, em), m, Reach(size)) /\ ~Whole(m, Reach(size))
    BY <1>2, <1>3, <1>7, TakenGrows DEF em1
  <2>2. Ends(file)[m] \in Nat
    BY EndsSteps DEF OutAt
  <2>3. Len(end.out) > end.outPos <=> o > Ends(file)[m]
    BY <1>6, <2>2
  <2>4. Truncated(dec) <=> (Incomplete(first) \/ Len(end.out) > end.outPos)
    BY <1>1 DEF Truncated, end, first
  <2>5. Truncated(dec) <=> Short
    BY <1>7, <2>3, <2>4 DEF first
  <2> QED BY <2>1, <2>5 DEF Completes
<1> QED BY <1>1, <1>2, <1>4, <1>5, <1>6, <1>7 DEF Finishes, em1

(* An uncompressed archive is short when it ends inside a record. *)
LEMMA PlainIsShort ==
  ASSUME file \in Files, ~file.zstd, size \in 0 .. DiskLen(file),
         NEW m \in 0 .. Len(file.records), Ends(file)[m] <= size,
         ~Whole(m, size), ~Broken(m, size)
  PROVE  Short <=> size > Ends(file)[m]
<1> DEFINE N == Len(file.records)
           E == Ends(file)
<1>1. N \in Nat \ {0} /\ DiskLen(file) = E[N] /\ DiskLen(file) \in Nat
  BY FileTypes, EndsSteps, DiskShape
<1>2. /\ E[0] = 0 /\ \A i, k \in 0 .. N : i < k => E[i] < E[k]
      /\ \A i \in 0 .. N : E[i] \in Nat
  BY PlainShape, EndsSteps
<1>3. Short <=> \A i \in 1 .. N : size > 0 /\ size # E[i]
  <2>1. \A i \in 1 .. N : EndOf(i) = E[i]
    <3> TAKE i \in 1 .. N
    <3>1. i \in 0 .. N
      BY <1>1
    <3> QED BY <3>1, EndOfIs
  <2> QED BY <2>1 DEF Short
<1>4. m < N => size < E[m + 1]
  <2> SUFFICES ASSUME m < N PROVE size < E[m + 1]
    OBVIOUS
  <2> DEFINE r == file.records[m + 1]
  <2>1. m + 1 \in 1 .. N /\ m + 1 \in 0 .. N
    BY <1>1
  <2>2. E[m + 1] = (E[m] + r.prefix) + r.body
    BY <1>1, EndsSteps
  <2>3. r.prefix \in Nat /\ r.body \in Nat /\ E[m] \in Nat /\ E[m + 1] \in Nat
    BY <1>2, <2>1, FileTypes
  <2>4. r.kind = "good" => ~(E[m + 1] <= size)
    BY DEF Whole
  <2>5. r.kind # "good" => ~(E[m] + r.prefix <= size)
    BY DEF Broken
  <2> HIDE DEF r, E
  <2> QED BY <1>1, <2>2, <2>3, <2>4, <2>5
<1> HIDE DEF E, N
<1>5. CASE size > E[m]
  <2>1. m # N
    BY <1>1, <1>5
  <2>2. m < N /\ m + 1 \in 0 .. N
    BY <1>1, <2>1 DEF N
  <2>3. size > 0
    BY <1>1, <1>2, <1>5 DEF N
  <2>4. ASSUME NEW i \in 1 .. N PROVE size # E[i]
    <3>1. i \in 0 .. N /\ m \in 0 .. N /\ E[i] \in Nat /\ E[m] \in Nat /\ E[m + 1] \in Nat
      BY <1>1, <1>2, <2>2 DEF N
    <3>2. CASE i <= m
      <4>1. i < m => E[i] < E[m]
        BY <1>2, <3>1
      <4>2. E[i] <= E[m]
        BY <3>1, <3>2, <4>1
      <4> QED BY <1>1, <1>5, <3>1, <4>2
    <3>3. CASE i > m
      <4>1. m + 1 < i => E[m + 1] < E[i]
        BY <1>2, <2>2, <3>1
      <4>2. E[m + 1] <= E[i]
        BY <3>1, <3>3, <4>1
      <4> QED BY <1>1, <1>4, <2>2, <3>1, <4>2
    <3> QED BY <1>1, <3>1, <3>2, <3>3
  <2> QED BY <1>3, <1>5, <2>3, <2>4 DEF E
<1>6. CASE ~(size > E[m])
  <2>1. size = E[m]
    BY <1>1, <1>2, <1>6 DEF E, N
  <2>2. m = 0 \/ m \in 1 .. N
    BY <1>1 DEF N
  <2>3. 1 \in 1 .. N
    BY <1>1
  <2>4. ~Short
    BY <1>2, <1>3, <2>1, <2>2, <2>3
  <2> QED BY <1>6, <2>4 DEF E
<1> QED BY <1>5, <1>6

(* finish of a decoder that copies. *)
LEMMA FinishCopies ==
  ASSUME file \in Files, size \in 0 .. DiskLen(file), NEW dec, NEW em, NEW b, NEW n, NEW o,
         Copies(dec, size, b, n, o), Taken(em, n, o)
  PROVE  Finishes(dec, em)
<1>1. ~FillFails(dec, TRUE)
  <2>1. TRUE \in BOOLEAN
    OBVIOUS
  <2> QED BY <2>1, CallCopies
<1>2. PICK m, b1 \in Nat :
        /\ n <= m
        /\ Copies(First(dec), size, b1, m, size)
        /\ Taken(AtFirst(dec, em), m, size)
        /\ ~Whole(m, size)
        /\ ScanFails(Fill(dec, TRUE)) <=> Broken(m, size)
  <2>1. TRUE \in BOOLEAN
    OBVIOUS
  <2>2. \E m, b1 \in Nat :
          /\ n <= m
          /\ Copies(Scanned(Fill(dec, TRUE)), size, b1, m, size)
          /\ Taken(em \o Found(Fill(dec, TRUE)), m, size)
          /\ ~Whole(m, size)
          /\ ScanFails(Fill(dec, TRUE)) <=> Broken(m, size)
          /\ Len(Scanned(Fill(dec, TRUE)).out) - Scanned(Fill(dec, TRUE)).outPos
               = size - Ends(file)[m]
    BY <2>1, CallCopies
  <2> QED BY <2>2 DEF First, AtFirst
<1>3. /\ First(dec) \in Decoder /\ OutAt(First(dec), b1, m, size)
      /\ First(dec).compression = "none" /\ ~file.zstd
  BY <1>2 DEF Copies
<1>4. n \in Nat /\ o \in Nat /\ size \in Nat
  <2>1. n \in 0 .. Len(file.records) /\ o \in Nat
    BY DEF Copies, OutAt
  <2> QED BY <2>1, FileTypes, DiskShape
<1>5. Reach(size) = size
  BY <1>3 DEF Reach
<1>6. ~Incomplete(First(dec)) /\ ~Flushes(dec)
  BY <1>3 DEF Incomplete, Flushes
<1>7. ~Broken(m, size) => (Incomplete(First(dec)) \/ size > Ends(file)[m] <=> Short)
  <2>1. m \in 0 .. Len(file.records) /\ Ends(file)[m] <= size
    BY <1>3 DEF OutAt
  <2> QED BY <1>2, <1>3, <1>6, <2>1, PlainIsShort
<1>8. size <= size
  BY <1>4
<1>9. Taken(em, n, o)
  OBVIOUS
<1> QED BY <1>1, <1>2, <1>3, <1>4, <1>5, <1>6, <1>7, <1>8, <1>9, FinishesAtOnce

(* The flush hands the buffer what was in the window. *)
LEMMA FlushUnzips ==
  ASSUME file \in Files, NEW dec, NEW fd, NEW b, NEW m, NEW o, Unzips(dec, fd, b, m, o)
  PROVE  /\ Flushed(dec) \in Decoder
         /\ OutAt(Flushed(dec), b, m, Yield(file, dec.read))
<1> DEFINE Y == Yield(file, dec.read)
           P == Plain(file)
<1>1. /\ dec \in Decoder /\ file.zstd
      /\ OutAt(dec, b, m, o)
      /\ o <= Y /\ dec.window = SubSeq(P, o + 1, Y)
  BY DEF Unzips
<1>2. /\ b \in Nat /\ o \in Nat /\ dec.out = SubSeq(P, b + 1, o)
      /\ dec.outPos \in Nat /\ b + dec.outPos = Ends(file)[m] /\ Ends(file)[m] <= o
      /\ m \in 0 .. Len(file.records)
  BY <1>1 DEF OutAt
<1>3. dec.read \in Nat /\ dec.out \in Seq(Nat \X Nat) /\ dec.window \in Seq(Nat \X Nat)
  BY <1>1 DEF Decoder
<1>4. Y \in 0 .. Len(P)
  BY <1>1, <1>3, YieldShape
<1>5. P \in Seq(Nat \X Nat) /\ Len(P) \in Nat /\ Ends(file)[m] \in Nat
  BY <1>2, EndsSteps
<1>6. b <= o
  BY <1>1, OutShape
<1>7. dec.out \o dec.window = SubSeq(P, b + 1, Y)
  <2> HIDE DEF Y, P
  <2>1. b + 1 \in 1 .. Len(P) + 1 /\ o \in (b + 1) - 1 .. Len(P) /\ Y \in o .. Len(P)
    BY <1>1, <1>2, <1>4, <1>5, <1>6
  <2> QED BY <1>1, <1>2, <1>5, <2>1, ConcatAdjacentSubSeq
<1>8. dec.out \o dec.window \in Seq(Nat \X Nat)
  BY <1>3, ConcatProperties
<1> DEFINE cells == dec.out \o dec.window
           new == [dec EXCEPT !.cin = <<>>, !.finished = TRUE, !.out = cells, !.window = <<>>]
<1>9. Flushed(dec) = new
  BY DEF Flushed
<1> HIDE DEF cells, Y, P
<1>10. new \in Decoder /\ new.out = cells /\ new.outPos = dec.outPos
  <2>1. cells \in Seq(Nat \X Nat) /\ <<>> \in Seq(Nat \X Nat)
    BY <1>8 DEF cells
  <2>2. new \in Decoder
    BY <1>1, <2>1 DEF Decoder
  <2>3. new.out = cells /\ new.outPos = dec.outPos
    BY <1>1 DEF Decoder
  <2> QED BY <2>2, <2>3
<1>11. Y \in Nat /\ Y <= Len(P) /\ Ends(file)[m] <= Y
  BY <1>1, <1>2, <1>4, <1>5
<1> HIDE DEF new
<1>12. OutAt(new, b, m, Y)
  BY <1>2, <1>7, <1>10, <1>11 DEF OutAt, cells, P
<1> QED BY <1>9, <1>10, <1>12 DEF Y

(* finish of a decoder that decompresses. *)
LEMMA FinishUnzips ==
  ASSUME file \in Files, size \in 0 .. DiskLen(file), NEW dec, NEW em, NEW b, NEW n, NEW o,
         Unzips(dec, size, b, n, o), Taken(em, n, o)
  PROVE  Finishes(dec, em)
<1> DEFINE first == First(dec)
           em1 == AtFirst(dec, em)
<1>1. FillFails(dec, TRUE) => Corrupts(size)
  BY CallUnzips
<1> SUFFICES ASSUME ~FillFails(dec, TRUE) PROVE Finishes(dec, em)
  BY <1>1 DEF Finishes
<1>2. PICK m, b1, o1 \in Nat :
        /\ n <= m
        /\ Unzips(first, size, b1, m, o1)
        /\ Taken(em1, m, o1)
        /\ ~Whole(m, o1)
        /\ ScanFails(Fill(dec, TRUE)) <=> Broken(m, o1)
        /\ ~first.started => size < MinHeader
        /\ first.started =>
             /\ Yield(file, first.read) = Yield(file, size)
             /\ first.finished <=> size = DiskLen(file)
  <2>1. PICK m, b1, o1 \in Nat : n <= m /\ Leaves(dec, em, size, TRUE, m, b1, o1)
    BY CallUnzips
  <2> QED BY <2>1 DEF Leaves, First, AtFirst
<1> HIDE DEF first, em1
<1>3. /\ first \in Decoder /\ OutAt(first, b1, m, o1)
      /\ first.compression = "zstd" /\ file.zstd
      /\ first.started => size >= MinHeader
      /\ ~first.started => first.read = 0
      /\ first.finished => o1 = Yield(file, first.read)
  BY <1>2 DEF Unzips
<1>4. n \in Nat /\ o \in Nat /\ size \in Nat /\ DiskLen(file) \in Nat
      /\ MinHeader \in Nat \ {0} /\ DiskLen(file) >= MinHeader
  <2>1. n \in 0 .. Len(file.records) /\ o \in Nat
    BY DEF Unzips, OutAt
  <2>2. n \in Nat /\ DiskLen(file) \in Nat /\ size \in Nat
    BY <2>1, FileTypes, DiskShape
  <2>3. MinHeader \in Nat \ {0}
    BY SizesAssumption
  <2>4. DiskLen(file) >= MinHeader
    BY <1>3, FilesAssumption
  <2> QED BY <2>1, <2>2, <2>3, <2>4
<1>5. /\ o1 <= Yield(file, first.read) /\ Yield(file, first.read) <= Reach(size)
      /\ Yield(file, first.read) \in Nat /\ Reach(size) \in Nat
  BY <1>2, <1>4, HeldIsReached, ReachGrows
<1>6. o1 <= Reach(size)
  BY <1>5
<1>7. Short <=> size > 0 /\ size < DiskLen(file)
  BY <1>3 DEF Short
<1>8. m \in 0 .. Len(file.records) /\ Ends(file)[m] \in Nat /\ Ends(file)[m] <= o1
  <2>1. m \in 0 .. Len(file.records) /\ Ends(file)[m] <= o1
    BY <1>3 DEF OutAt
  <2> QED BY <2>1, EndsSteps
<1>9. Taken(em, n, o)
  OBVIOUS
<1>10. CASE ~first.started
  <2>1. Reach(size) = 0
    BY <1>2, <1>3, <1>4, <1>10 DEF Reach
  <2>2. o1 = 0 /\ Ends(file)[m] = 0
    BY <1>6, <1>8, <2>1
  <2>3. Incomplete(first) <=> size > 0
    BY <1>3, <1>10 DEF Incomplete
  <2>4. ~Flushes(dec)
    BY <1>10 DEF Flushes, first
  <2>5. Incomplete(first) \/ o1 > Ends(file)[m] <=> Short
    BY <1>2, <1>4, <1>7, <1>10, <2>2, <2>3
  <2>6. ~Whole(m, Reach(size))
    BY <1>2, <2>1, <2>2
  <2> QED BY <1>2, <1>3, <1>4, <1>6, <1>9, <2>4, <2>5, <2>6, FinishesAtOnce DEF first, em1
<1>11. CASE first.started /\ first.finished
  <2>1. Reach(size) = o1 /\ size = DiskLen(file) /\ o1 = Len(Plain(file))
    <3>1. Reach(size) = Yield(file, size)
      BY <1>3, <1>4, <1>11 DEF Reach
    <3>2. Yield(file, DiskLen(file)) = Len(Plain(file))
      BY <1>3, YieldEnds
    <3> QED BY <1>2, <1>3, <1>11, <3>1, <3>2
  <2>2. ~Incomplete(first) /\ ~Flushes(dec)
    BY <1>3, <1>11 DEF Incomplete, Flushes, first
  <2>3. ~Broken(m, o1) => o1 = Ends(file)[m]
    <3> SUFFICES ASSUME ~Broken(m, o1), m # Len(file.records) PROVE FALSE
      BY <2>1, EndsSteps
    <3> DEFINE r == file.records[m + 1]
    <3>1. m < Len(file.records)
      BY <1>8, FileTypes
    <3>2. m + 1 \in 1 .. Len(file.records) /\ m + 1 \in 0 .. Len(file.records)
      BY <1>8, <3>1, EndsSteps, FileTypes
    <3>3. /\ Ends(file)[m + 1] = (Ends(file)[m] + r.prefix) + r.body
          /\ Ends(file)[m + 1] <= o1
          /\ r.prefix \in Nat /\ r.body \in Nat
      BY <1>8, <2>1, <3>1, <3>2, EndsSteps, FileTypes
    <3>4. r.kind # "good"
      BY <1>2, <3>1, <3>3 DEF Whole
    <3>5. ~(Ends(file)[m] + r.prefix <= o1)
      BY <3>1, <3>4 DEF Broken
    <3> HIDE DEF r
    <3> QED BY <1>8, <3>3, <3>5
  <2>4. ~Short
    BY <1>4, <1>7, <2>1
  <2>5. ~Broken(m, o1) => (Incomplete(first) \/ o1 > Ends(file)[m] <=> Short)
    BY <1>8, <2>2, <2>3, <2>4
  <2>6. ~Whole(m, Reach(size))
    BY <1>2, <2>1
  <2> QED BY <1>2, <1>3, <1>4, <1>6, <1>9, <2>2, <2>5, <2>6, FinishesAtOnce DEF first, em1
<1>12. CASE first.started /\ ~first.finished
  <2> DEFINE Y == Yield(file, first.read)
             last == Flushed(first)
             em2 == em1 \o Found(last)
  <2>1. Reach(size) = Y
    BY <1>2, <1>3, <1>4, <1>12 DEF Reach
  <2>2. Incomplete(first) /\ Flushes(dec)
    BY <1>3, <1>12 DEF Incomplete, Flushes, first
  <2>3. AfterFlush(dec) = last /\ AtLast(dec, em) = em2
    BY <2>2 DEF AfterFlush, AtLast, first, em1
  <2>4. last \in Decoder /\ OutAt(last, b1, m, Y)
    BY <1>2, FlushUnzips
  <2>5. Taken(em1, m, Y)
    BY <1>2, <1>5, TakenGrows
  <2> HIDE DEF last, Y
  <2>6. PICK k \in 0 .. Len(file.records), b2 \in Nat :
          /\ m <= k
          /\ Taken(em1 \o Found(last), k, Y)
          /\ ~Whole(k, Y)
          /\ ScanFails(last) <=> Broken(k, Y)
          /\ OutAt(Scanned(last), b2, k, Y)
          /\ Kept(last, Scanned(last))
          /\ Len(Scanned(last).out) - Scanned(last).outPos = Y - Ends(file)[k]
    BY <2>4, <2>5, ScanStep
  <2>7. k \in Nat /\ Y \in Nat /\ Y <= Reach(size) /\ n <= k
    <3>1. k \in Nat
      BY <2>6, FileTypes
    <3> QED BY <1>2, <1>4, <1>5, <2>1, <2>6, <3>1
  <2>8. Hands(em, em1, size)
    BY <1>2, <1>4, <1>6 DEF Hands
  <2>9. Broken(m, o1) => Breaks(size)
    BY <1>2, <1>6 DEF Breaks
  <2>10. Hands(em, em2, size)
    BY <1>4, <1>9, <2>6, <2>7 DEF Hands
  <2>11. Broken(k, Y) => Breaks(size)
    BY <2>7 DEF Breaks
  <2>12. Completes(dec, em)
    <3>1. Short
      BY <1>2, <1>3, <1>4, <1>7, <1>12
    <3>2. Truncated(dec)
      BY <2>2 DEF Truncated, first
    <3>3. Taken(em2, k, Reach(size)) /\ ~Whole(k, Reach(size))
      BY <2>1, <2>6
    <3> QED BY <2>3, <2>7, <3>1, <3>2, <3>3 DEF Completes
  <2> HIDE DEF em2
  <2>13. /\ Hands(em, AtFirst(dec, em), size)
         /\ ScanFails(Fill(dec, TRUE)) => Breaks(size)
    BY <1>2, <2>8, <2>9 DEF em1
  <2>14. /\ Hands(em, AtLast(dec, em), size)
         /\ ScanFails(AfterFlush(dec)) => Breaks(size)
    BY <2>3, <2>6, <2>10, <2>11
  <2> QED BY <2>12, <2>13, <2>14 DEF Finishes
<1> QED BY <1>10, <1>11, <1>12

(* An archive cut within its magic. *)
LEMMA ShortStart ==
  ASSUME file \in Files, size \in 0 .. DiskLen(file), size < MagicLen
  PROVE  /\ size \in Nat /\ Reach(size) \in Nat
         /\ ~Whole(0, 0) /\ ~Broken(0, 0) /\ ~Whole(0, Reach(size))
         /\ Short <=> size > 0
<1> DEFINE N == Len(file.records)
           E == Ends(file)
<1>1. /\ DiskLen(file) \in Nat /\ MagicLen \in Nat \ {0} /\ MinHeader \in Nat
      /\ MagicLen <= MinHeader /\ MagicLen <= DiskLen(file)
  <2>1. DiskLen(file) \in Nat /\ DiskLen(file) >= MagicLen
    BY DiskShape
  <2>2. /\ MagicLen \in Nat \ {0} /\ MinHeader \in Nat /\ MagicLen <= MinHeader
    BY SizesAssumption
  <2> QED BY <2>1, <2>2
<1>2. size \in Nat
  BY <1>1
<1>3. Reach(size) \in Nat /\ Reach(size) <= size
  <2>1. CASE file.zstd
    <3>1. Reach(size) = 0
      BY <1>1, <1>2, <2>1 DEF Reach
    <3> QED BY <1>2, <3>1
  <2>2. CASE ~file.zstd
    BY <1>2, <2>2 DEF Reach
  <2> QED BY <2>1, <2>2
<1>4. /\ N \in Nat \ {0} /\ E[0] = 0
      /\ \A i \in 0 .. N : E[i] \in Nat
      /\ \A i, k \in 0 .. N : i < k => E[i] < E[k]
      /\ E[1] >= MagicLen
  BY FileTypes, EndsSteps, PlainShape
<1>5. ~Whole(0, 0) /\ ~Whole(0, Reach(size))
  <2>1. 1 \in 0 .. N /\ 0 + 1 = 1
    BY <1>4
  <2>2. E[1] \in Nat
    BY <1>4, <2>1
  <2>3. ~(E[0 + 1] <= 0) /\ ~(E[0 + 1] <= Reach(size))
    <3> HIDE DEF E
    <3> QED BY <1>1, <1>2, <1>3, <1>4, <2>1, <2>2
  <2> QED BY <2>3 DEF Whole
<1>6. ~Broken(0, 0)
  <2>1. file.records[0 + 1].prefix \in Nat \ {0}
    BY <1>4, FileTypes
  <2>2. ~(E[0] + file.records[0 + 1].prefix <= 0)
    BY <1>4, <2>1
  <2> QED BY <2>2 DEF Broken
<1>7. Short <=> size > 0
  <2>1. CASE file.zstd
    BY <1>1, <1>2, <2>1 DEF Short
  <2>2. CASE ~file.zstd
    <3>1. \A i \in 1 .. N : size # EndOf(i)
      <4> TAKE i \in 1 .. N
      <4>1. i \in 0 .. N /\ 1 \in 0 .. N /\ i \in Nat
        BY <1>4
      <4>2. 1 < i => E[1] < E[i]
        BY <1>4, <4>1
      <4>3. E[i] >= MagicLen /\ E[i] \in Nat /\ E[1] \in Nat
        <5> HIDE DEF E
        <5>1. E[i] \in Nat /\ E[1] \in Nat
          BY <1>4, <4>1
        <5>2. i = 1 \/ 1 < i
          BY <4>1
        <5> QED BY <1>1, <1>4, <4>2, <5>1, <5>2
      <4>4. EndOf(i) = E[i]
        BY <4>1, EndOfIs
      <4> HIDE DEF E
      <4> QED BY <1>1, <1>2, <4>3, <4>4
    <3>2. 1 \in 1 .. N
      BY <1>4
    <3> QED BY <2>2, <3>1, <3>2 DEF Short
  <2> QED BY <2>1, <2>2
<1> QED BY <1>2, <1>3, <1>5, <1>6, <1>7

(* An archive cut within its magic, taken for a zstd one. *)
LEMMA FinishNamedZstd ==
  ASSUME file \in Files, size \in 0 .. DiskLen(file), size < MagicLen,
         NEW dec, Sniffs(dec, size), hint = "zstd"
  PROVE  Finishes(dec, <<>>)
<1> DEFINE known == [dec EXCEPT !.compression = "zstd"]
           first == First(dec)
<1>1. /\ size \in Nat /\ Reach(size) \in Nat
      /\ ~Whole(0, 0) /\ ~Broken(0, 0) /\ ~Whole(0, Reach(size))
      /\ Short <=> size > 0
  BY ShortStart
<1>2. /\ dec \in Decoder /\ dec.compression = "unknown" /\ ~dec.started
      /\ dec.out = <<>> /\ dec.outPos = 0
      /\ dec.cin = SubSeq(Disk(file), 0 + 1, size)
  BY DEF Sniffs
<1>3. Len(dec.cin) = size
  <2>1. Disk(file) \in Seq(Nat \X Nat) /\ Len(Disk(file)) = DiskLen(file) /\ DiskLen(file) \in Nat
    BY DiskShape
  <2>2. 0 \in Nat /\ 0 <= size /\ size <= Len(Disk(file)) /\ size - 0 = size
    BY <1>1, <2>1
  <2> QED BY <1>1, <1>2, <2>1, <2>2, PieceLen
<1>4. /\ known \in Decoder /\ known.compression = "zstd" /\ ~known.started
      /\ known.out = dec.out /\ known.outPos = dec.outPos /\ known.cin = dec.cin
  BY <1>2 DEF Decoder
<1>5. Detect(dec, TRUE) = known
  <2>1. ~(Len(dec.cin) >= MagicLen)
    BY <1>1, <1>3, SizesAssumption
  <2> QED BY <1>2, <2>1 DEF Detect
<1>6. Waits(known, TRUE)
  <2>1. Len(known.cin) < MinHeader
    BY <1>1, <1>3, <1>4, SizesAssumption
  <2> QED BY <1>4, <2>1 DEF Waits
<1>7. Fill(dec, TRUE) = known /\ ~FillFails(dec, TRUE)
  <2> HIDE DEF known
  <2> QED BY <1>4, <1>5, <1>6 DEF Fill, FillFails
<1>8. OutAt(known, 0, 0, 0)
  <2>1. OutAt(dec, 0, 0, 0)
    BY SniffsHolds
  <2> HIDE DEF known
  <2> QED BY <1>4, <2>1 DEF OutAt
<1> HIDE DEF known
<1>9. /\ Found(known) = <<>> /\ ~ScanFails(known)
      /\ Kept(known, Scanned(known))
      /\ Scanned(known).out = <<>> /\ Scanned(known).outPos = 0
  BY <1>4, <1>8, ScanNothing
<1>10. first = Scanned(known) /\ AtFirst(dec, <<>>) = <<>>
  <2>1. AtFirst(dec, <<>>) = <<>> \o Found(known)
    BY <1>7 DEF AtFirst
  <2>2. <<>> \o Found(known) = <<>>
    BY <1>9
  <2> QED BY <1>7, <2>1, <2>2 DEF First
<1>11. first \in Decoder /\ first.compression = "zstd" /\ ~first.started
  BY <1>4, <1>9, <1>10 DEF Kept
<1>12. OutAt(first, 0, 0, 0)
  BY <1>2, <1>4, <1>8, <1>9, <1>10 DEF OutAt
<1>13. ~Flushes(dec) /\ (Incomplete(first) <=> size > 0)
  BY <1>11 DEF Flushes, Incomplete
<1>14. Taken(<<>>, 0, 0)
  BY TakenNone
<1>15. Incomplete(first) \/ 0 > Ends(file)[0] <=> Short
  BY <1>1, <1>13, EndsSteps
<1>16. ScanFails(Fill(dec, TRUE)) <=> Broken(0, 0)
  BY <1>1, <1>7, <1>9
<1>17. 0 \in Nat /\ 0 <= 0 /\ 0 <= Reach(size)
  BY <1>1
<1> HIDE DEF first
<1> QED BY <1>1, <1>7, <1>10, <1>11, <1>12, <1>13, <1>14, <1>15, <1>16, <1>17, FinishesAtOnce
        DEF first

(* A buffer that does not hold the plain stream: nothing is taken out of it. *)
LEMMA ScanForeign ==
  ASSUME file \in Files, NEW dec \in Decoder, dec.outPos = 0,
         Len(dec.out) > 0 => dec.out[1][1] \notin DOMAIN file.records
  PROVE  /\ Found(dec) = <<>> /\ ~ScanFails(dec)
         /\ Scanned(dec).out = dec.out /\ Scanned(dec).outPos = 0
         /\ Scanned(dec).compression = dec.compression
         /\ Scanned(dec) \in Decoder
<1>1. dec.out \in Seq(Nat \X Nat) /\ Len(dec.out) \in Nat
  BY LenProperties DEF Decoder
<1>2. 0 \in 0 .. Len(dec.out) /\ 0 + 1 = 1
  BY <1>1
<1>3. ~PrefixAt(dec, 0) /\ ~CompleteAt(dec, 0)
  BY <1>1, <1>2 DEF PrefixAt, CompleteAt
<1>4. Found(dec) = <<>> /\ ScanEnd(dec) = 0
  <2>1. PICK g, h :
           /\ Found(dec) = g[dec.outPos] /\ ScanEnd(dec) = h[dec.outPos]
           /\ \A p \in 0 .. Len(dec.out) :
                /\ ~CompleteAt(dec, p) => g[p] = <<>> /\ h[p] = p
                /\ CompleteAt(dec, p) =>
                     /\ g[p] = <<SubSeq(dec.out, p + SpecAt(dec, p).prefix + 1,
                                        p + SpecAt(dec, p).prefix + SpecAt(dec, p).body)>>
                                 \o g[p + SpecAt(dec, p).prefix + SpecAt(dec, p).body]
                     /\ h[p] = h[p + SpecAt(dec, p).prefix + SpecAt(dec, p).body]
    BY <1>1, ScanSolves
  <2>2. g[0] = <<>> /\ h[0] = 0
    BY <1>2, <1>3, <2>1
  <2> QED BY <2>1, <2>2
<1>5. ~ScanFails(dec)
  BY <1>3, <1>4 DEF ScanFails
<1>6. SubSeq(dec.out, 0 + 1, Len(dec.out)) = dec.out
  BY <1>1, SubSeqFull
<1>7. CASE 0 < CompactThreshold
  <2>1. Scanned(dec) = [dec EXCEPT !.outPos = 0]
    BY <1>4, <1>7 DEF Scanned
  <2> QED BY <1>4, <1>5, <2>1 DEF Decoder
<1>8. CASE ~(0 < CompactThreshold)
  <2>1. Scanned(dec) = [dec EXCEPT !.out = dec.out, !.outPos = 0]
    BY <1>4, <1>6, <1>8 DEF Scanned
  <2> QED BY <1>4, <1>5, <2>1 DEF Decoder
<1> QED BY <1>7, <1>8

(* A zstd archive cut within its magic, not taken for one. *)
LEMMA FinishNamedPlain ==
  ASSUME file \in Files, size \in 0 .. DiskLen(file), size < MagicLen,
         NEW dec, Sniffs(dec, size), hint = "none", file.zstd
  PROVE  Finishes(dec, <<>>)
<1> DEFINE known == [dec EXCEPT !.compression = "none"]
           filled == [known EXCEPT !.out = @ \o known.cin, !.cin = <<>>]
           first == First(dec)
<1>1. /\ size \in Nat /\ Reach(size) \in Nat
      /\ ~Whole(0, 0) /\ ~Broken(0, 0) /\ ~Whole(0, Reach(size))
      /\ Short <=> size > 0
  BY ShortStart
<1>2. /\ dec \in Decoder /\ dec.compression = "unknown"
      /\ dec.out = <<>> /\ dec.outPos = 0
      /\ dec.cin = SubSeq(Disk(file), 0 + 1, size)
  BY DEF Sniffs
<1>3. Disk(file) \in Seq(Nat \X Nat) /\ Len(Disk(file)) = DiskLen(file) /\ DiskLen(file) \in Nat
  BY DiskShape
<1>4. dec.cin \in Seq(Nat \X Nat) /\ Len(dec.cin) = size
  <2>1. 0 \in Nat /\ 0 <= size /\ size <= Len(Disk(file)) /\ size - 0 = size
    BY <1>1, <1>3
  <2> QED BY <1>1, <1>2, <1>3, <2>1, PieceLen
<1>5. Len(dec.cin) > 0 => dec.cin[1] = <<0, 1>>
  <2> SUFFICES ASSUME size > 0 PROVE dec.cin[1] = <<0, 1>>
    BY <1>1, <1>4
  <2>1. 1 \in 1 .. Len(dec.cin)
    BY <1>1, <1>4
  <2>2. dec.cin[1] = Disk(file)[1]
    <3>1. \A i \in 0 + 1 .. size : Disk(file)[i] \in Nat \X Nat
      <4> TAKE i \in 0 + 1 .. size
      <4>1. i \in 1 .. Len(Disk(file))
        BY <1>1, <1>3
      <4> QED BY <1>3, <4>1, ElementOfSeq
    <3>2. 0 + 1 \in Int /\ size \in Int
      BY <1>1
    <3>3. \A i \in 1 .. size - (0 + 1) + 1 :
             SubSeq(Disk(file), 0 + 1, size)[i] = Disk(file)[0 + 1 + i - 1]
      BY <3>1, <3>2, SubSeqProperties
    <3>4. 1 \in 1 .. size - (0 + 1) + 1 /\ 0 + 1 + 1 - 1 = 1
      BY <1>1
    <3> QED BY <1>2, <3>3, <3>4
  <2> QED BY <2>2, DiskShape
<1>6. /\ known \in Decoder /\ known.compression = "none"
      /\ known.out = <<>> /\ known.outPos = 0 /\ known.cin = dec.cin
  BY <1>2 DEF Decoder
<1>7. Detect(dec, TRUE) = known
  <2>1. ~(Len(dec.cin) >= MagicLen)
    BY <1>1, <1>4, SizesAssumption
  <2> QED BY <1>2, <2>1 DEF Detect
<1> HIDE DEF known
<1>8. Fill(dec, TRUE) = filled /\ ~FillFails(dec, TRUE)
  BY <1>6, <1>7 DEF Fill, FillFails
<1>9. /\ filled \in Decoder /\ filled.compression = "none"
      /\ filled.out = dec.cin /\ filled.outPos = 0
  <2>1. known.out \o known.cin = dec.cin
    BY <1>4, <1>6, ConcatEmptySeq
  <2>2. <<>> \in Seq(Nat \X Nat)
    OBVIOUS
  <2> DEFINE cells == dec.cin
             other == [known EXCEPT !.out = cells, !.cin = <<>>]
  <2>3. filled = other
    BY <2>1
  <2>4. cells \in Seq(Nat \X Nat)
    BY <1>4
  <2> HIDE DEF cells, filled
  <2>5. other \in Decoder
    BY <1>6, <2>2, <2>4 DEF Decoder
  <2>6. other.compression = "none" /\ other.out = cells /\ other.outPos = 0
    BY <1>6 DEF Decoder
  <2> QED BY <2>3, <2>5, <2>6 DEF cells
<1> HIDE DEF filled
<1>10. 0 \notin DOMAIN file.records
  BY FileTypes
<1>11. Len(filled.out) > 0 => filled.out[1][1] \notin DOMAIN file.records
  BY <1>5, <1>9, <1>10
<1>12. /\ Found(filled) = <<>> /\ ~ScanFails(filled)
       /\ Scanned(filled).out = filled.out /\ Scanned(filled).outPos = 0
       /\ Scanned(filled).compression = filled.compression
       /\ Scanned(filled) \in Decoder
  BY <1>9, <1>11, ScanForeign
<1>13. first = Scanned(filled) /\ AtFirst(dec, <<>>) = <<>>
  <2>1. AtFirst(dec, <<>>) = <<>> \o Found(filled)
    BY <1>8 DEF AtFirst
  <2>2. <<>> \o Found(filled) = <<>>
    BY <1>12
  <2> QED BY <1>8, <2>1, <2>2 DEF First
<1>14. /\ first \in Decoder /\ first.out = filled.out /\ first.outPos = 0
       /\ first.compression = "none"
  BY <1>9, <1>12, <1>13
<1>15. ~Incomplete(first) /\ ~Flushes(dec)
  BY <1>14 DEF Incomplete, Flushes
<1>16. AfterFlush(dec) = first /\ AtLast(dec, <<>>) = <<>>
  BY <1>13, <1>15 DEF AfterFlush, AtLast
<1> HIDE DEF first
<1>17. /\ ~ScanFails(first)
       /\ Scanned(first).out = first.out /\ Scanned(first).outPos = 0
  BY <1>11, <1>14, ScanForeign
<1>18. Taken(<<>>, 0, 0) /\ Taken(<<>>, 0, Reach(size))
  BY TakenNone
<1>19. Hands(<<>>, <<>>, size)
  <2>1. 0 \in Nat /\ 0 <= 0 /\ 0 <= Reach(size)
    BY <1>1
  <2> QED BY <1>18, <2>1 DEF Hands
<1>20. Truncated(dec) <=> Short
  <2>1. Truncated(dec) <=> Len(first.out) > 0
    BY <1>15, <1>16, <1>17 DEF Truncated, first
  <2> QED BY <1>1, <1>4, <1>9, <1>14, <2>1
<1>21. Completes(dec, <<>>)
  BY <1>1, <1>16, <1>18, <1>20 DEF Completes
<1> QED BY <1>8, <1>12, <1>13, <1>16, <1>17, <1>19, <1>21 DEF Finishes

LEMMA FinishResult ==
  ASSUME file \in Files, size \in 0 .. DiskLen(file), hint \in {"zstd", "none"},
         NEW dec, NEW em, Between(dec, em, size)
  PROVE  Finishes(dec, em)
<1>1. ASSUME Sniffs(dec, size), size < MagicLen, em = <<>> PROVE Finishes(dec, em)
  <2>1. CASE hint = "zstd"
    BY <1>1, <2>1, FinishNamedZstd
  <2>2. CASE hint = "none" /\ file.zstd
    BY <1>1, <2>2, FinishNamedPlain
  <2>3. CASE hint = "none" /\ ~file.zstd
    <3> DEFINE known == Detect(dec, TRUE)
               other == [dec EXCEPT !.compression = "none"]
    <3>1. known = other
      <4>1. Len(dec.cin) = size /\ dec.compression = "unknown"
        <5>1. dec.cin = SubSeq(Disk(file), 0 + 1, size) /\ dec.compression = "unknown"
          BY <1>1 DEF Sniffs
        <5>2. Disk(file) \in Seq(Nat \X Nat) /\ Len(Disk(file)) = DiskLen(file)
              /\ DiskLen(file) \in Nat
          BY DiskShape
        <5>3. 0 \in Nat /\ size \in Nat /\ 0 <= size /\ size <= Len(Disk(file)) /\ size - 0 = size
          BY <5>2
        <5> QED BY <5>1, <5>2, <5>3, PieceLen
      <4>2. ~(Len(dec.cin) >= MagicLen)
        <5>1. size \in Nat /\ MagicLen \in Nat
          BY DiskShape, SizesAssumption
        <5> QED BY <1>1, <4>1, <5>1
      <4> QED BY <2>3, <4>1, <4>2 DEF Detect
    <3>2. OutAt(dec, 0, 0, 0)
      BY <1>1, SniffsHolds
    <3>3. /\ dec \in Decoder /\ size \in Nat /\ dec.cin = SubSeq(Disk(file), 0 + 1, size)
      BY <1>1, DiskShape DEF Sniffs
    <3>4. /\ other \in Decoder /\ other.compression = "none"
          /\ other.out = dec.out /\ other.outPos = dec.outPos /\ other.cin = dec.cin
      BY <3>3 DEF Decoder
    <3> HIDE DEF other, known
    <3>5. OutAt(other, 0, 0, 0)
      BY <3>2, <3>4 DEF OutAt
    <3>6. Copies(known, size, 0, 0, 0)
      <4>1. 0 <= size
        BY <3>3
      <4> QED BY <2>3, <3>1, <3>3, <3>4, <3>5, <4>1 DEF Copies
    <3>7. Taken(em, 0, 0)
      BY <1>1, TakenNone
    <3>8. Finishes(known, em)
      BY <3>6, <3>7, FinishCopies
    <3>9. known.compression # "unknown"
      BY <3>1, <3>4
    <3>10. /\ Fill(known, TRUE) = Fill(dec, TRUE)
           /\ FillFails(known, TRUE) <=> FillFails(dec, TRUE)
      BY <3>9, DetectOnce DEF known
    <3>11. First(known) = First(dec) /\ AtFirst(known, em) = AtFirst(dec, em)
      BY <3>10 DEF First, AtFirst
    <3>12. Flushes(known) <=> Flushes(dec)
      BY <3>11 DEF Flushes
    <3>13. AfterFlush(known) = AfterFlush(dec)
      BY <3>11, <3>12 DEF AfterFlush
    <3>14. AtLast(known, em) = AtLast(dec, em)
      BY <3>11, <3>12, <3>13 DEF AtLast
    <3>15. Completes(known, em) <=> Completes(dec, em)
      BY <3>11, <3>13, <3>14 DEF Completes, Truncated
    <3> QED BY <3>8, <3>10, <3>11, <3>13, <3>14, <3>15 DEF Finishes
  <2> QED BY <2>1, <2>2, <2>3
<1>2. ASSUME NEW b \in Nat, NEW n \in Nat, Copies(dec, size, b, n, size), Quiet(em, n, size)
      PROVE  Finishes(dec, em)
  BY <1>2, FinishCopies DEF Quiet
<1>3. ASSUME NEW b \in Nat, NEW n \in Nat, NEW o \in Nat,
             Unzips(dec, size, b, n, o), Quiet(em, n, o)
      PROVE  Finishes(dec, em)
  BY <1>3, FinishUnzips DEF Quiet
<1> QED BY <1>1, <1>2, <1>3 DEF Between

-----------------------------------------------------------------------------
(***************************************************************************)
(* The steps.                                                              *)
(***************************************************************************)
IInv ==
  /\ file \in Files
  /\ size \in 0 .. DiskLen(file)
  /\ hint \in {"zstd", "none"}
  /\ fed \in 0 .. size
  /\ phase \in {"reading", "failed", "done"}
  /\ phase = "reading" => Between(d, emitted, fed)
  /\ TruncationIsReported

(* What is said of the archive does not change while it is read. *)
LEMMA BetweenKept ==
  ASSUME NEW dec, NEW em, NEW fd, file' = file, Between(dec, em, fd)
  PROVE  Between(dec, em, fd)'
<1>1. ASSUME Sniffs(dec, fd) PROVE Sniffs(dec, fd)'
  BY <1>1 DEF Sniffs
<1>2. ASSUME NEW b, NEW n, NEW o, OutAt(dec, b, n, o) PROVE OutAt(dec, b, n, o)'
  BY <1>2 DEF OutAt
<1>3. ASSUME NEW b, NEW n, NEW o, Copies(dec, fd, b, n, o) PROVE Copies(dec, fd, b, n, o)'
  BY <1>2, <1>3 DEF Copies
<1>4. ASSUME NEW b, NEW n, NEW o, Unzips(dec, fd, b, n, o) PROVE Unzips(dec, fd, b, n, o)'
  BY <1>2, <1>4 DEF Unzips
<1>5. ASSUME NEW n, NEW o
      PROVE  /\ Whole(n, o)' <=> Whole(n, o)
             /\ Broken(n, o)' <=> Broken(n, o)
  BY DEF Whole, Broken
<1>6. Bodies' = Bodies
  BY DEF Bodies, Body
<1>7. ASSUME NEW n, NEW o, Quiet(em, n, o) PROVE Quiet(em, n, o)'
  BY <1>5, <1>6, <1>7 DEF Quiet, Taken
<1> QED BY <1>1, <1>3, <1>4, <1>7 DEF Between

LEMMA SourceKept ==
  ASSUME file' = file, size' = size
  PROVE  /\ Recoverable(Available)' = Recoverable(Available)
         /\ Sound' = Sound
<1>1. Available' = Available
  BY DEF Available
<1>2. Recoverable(Available)' = Recoverable(Available)
  BY DEF Available, Recoverable, GoodUpTo, EndOf, Body
<1>3. Sound' <=> Sound
  BY DEF Sound, Available, EndOf
<1>4. Sound \in BOOLEAN /\ Sound' \in BOOLEAN
  BY DEF Sound
<1> QED BY <1>2, <1>3, <1>4

(* More of the file brings more within reach. *)
LEMMA MoreIsReached ==
  ASSUME file \in Files, NEW c \in Nat, NEW k \in Nat, c <= k
  PROVE  /\ \A em, em1 : Hands(em, em1, c) => Hands(em, em1, k)
         /\ Breaks(c) => Breaks(k)
         /\ Corrupts(c) => Corrupts(k)
<1>1. Reach(c) \in Nat /\ Reach(k) \in Nat /\ Reach(c) <= Reach(k)
  BY ReachGrows
<1>2. \A o \in Nat : o <= Reach(c) => o <= Reach(k)
  BY <1>1
<1>3. ASSUME NEW em, NEW em1, Hands(em, em1, c) PROVE Hands(em, em1, k)
  BY <1>2, <1>3 DEF Hands
<1>4. Breaks(c) => Breaks(k)
  BY <1>2 DEF Breaks
<1>5. Corrupts(c) => Corrupts(k)
  <2> SUFFICES ASSUME Corrupts(c) PROVE Corrupts(k)
    OBVIOUS
  <2>1. /\ file.zstd /\ file.corrupt # 0 /\ file.blocks[file.corrupt].disk <= c
    BY DEF Corrupts
  <2>2. file.corrupt \in 1 .. Len(file.blocks)
    BY <2>1, BlockShape
  <2>3. file.blocks[file.corrupt].disk \in Nat
    BY <2>1, <2>2, BlockShape
  <2> QED BY <2>1, <2>3 DEF Corrupts
<1> QED BY <1>3, <1>4, <1>5

(* What the property calls available. *)
LEMMA AvailableIs ==
  ASSUME file \in Files, size \in Nat
  PROVE  Available = Reach(size) /\ Reach(size) \in Nat
<1>1. Reach(size) \in Nat
  BY ReachGrows
<1>2. Available = Reach(size)
  BY Zenon DEF Available, Reach
<1> QED BY <1>1, <1>2

(* What has been handed out is a part of what can be recovered. *)
LEMMA HandsPart ==
  ASSUME file \in Files, size \in Nat, NEW em, NEW em1, Hands(em, em1, size)
  PROVE  IsPrefix(em, em1) /\ IsPrefix(em1, Recoverable(Available))
<1>1. Available = Reach(size) /\ Reach(size) \in Nat
  BY AvailableIs
<1>2. PICK n, m, o, o1 \in Nat :
        /\ Taken(em, n, o) /\ Taken(em1, m, o1)
        /\ n <= m /\ o1 <= Reach(size)
  BY DEF Hands
<1>3. IsPrefix(em, em1)
  BY <1>2, TakenPart
<1>4. PICK k \in 0 .. Len(file.records) :
        Taken(Recoverable(Reach(size)), k, Reach(size)) /\ ~Whole(k, Reach(size))
  BY <1>1, RecoverableIs
<1>5. IsPrefix(em1, Recoverable(Reach(size)))
  BY <1>1, <1>2, <1>4, TakenPart
<1> QED BY <1>1, <1>3, <1>5

(* A broken record or a corrupt block within reach: the file is not sound. *)
LEMMA BrokenIsUnsound ==
  ASSUME file \in Files, size \in Nat, Breaks(size) \/ Corrupts(size)
  PROVE  ~Sound
<1>1. Available = Reach(size) /\ Reach(size) \in Nat
  BY AvailableIs
<1>2. CASE Breaks(size)
  <2>1. PICK m, o \in Nat : Broken(m, o) /\ o <= Reach(size)
    BY <1>2 DEF Breaks
  <2> DEFINE i == m + 1
             r == file.records[i]
  <2>2. /\ m < Len(file.records) /\ r.kind # "good" /\ Ends(file)[m] + r.prefix <= o
    BY <2>1 DEF Broken
  <2>3. m \in 0 .. Len(file.records) /\ i \in 1 .. Len(file.records) /\ i \in 0 .. Len(file.records)
    BY <2>1, <2>2, FileTypes
  <2>4. /\ Ends(file)[i] = (Ends(file)[m] + r.prefix) + r.body
        /\ Ends(file)[m] \in Nat
        /\ r.prefix \in Nat /\ r.body \in Nat
    BY <2>2, <2>3, EndsSteps, FileTypes
  <2>5. EndOf(i) = Ends(file)[i]
    BY <2>3, EndOfIs
  <2>6. EndOf(i) - r.body <= Available
    <3> HIDE DEF i, r
    <3> QED BY <1>1, <2>1, <2>2, <2>4, <2>5
  <2>7. i \in DOMAIN file.records
    BY <2>3, FileTypes
  <2> HIDE DEF i
  <2> QED BY <2>2, <2>6, <2>7 DEF Sound
<1>3. CASE Corrupts(size)
  <2>1. /\ file.zstd /\ file.corrupt # 0 /\ file.blocks[file.corrupt].disk <= size
    BY <1>3 DEF Corrupts
  <2>2. file.corrupt \in 1 .. Len(file.blocks)
    BY <2>1, BlockShape
  <2>3. file.blocks[file.corrupt].disk \in Nat
    BY <2>1, <2>2, BlockShape
  <2> QED BY <2>1, <2>3 DEF Sound
<1> QED BY <1>2, <1>3

(* Between calls, what has been handed out is within reach. *)
LEMMA BetweenHands ==
  ASSUME file \in Files, NEW dec, NEW em, NEW fd, Between(dec, em, fd)
  PROVE  Hands(em, em, fd)
<1>1. fd \in Nat
  <2>1. fd \in 0 .. DiskLen(file)
    BY DEF Between, Sniffs, Copies, Unzips
  <2> QED BY <2>1, DiskShape
<1>2. Reach(fd) \in Nat
  BY <1>1, ReachGrows
<1>3. CASE em = <<>>
  <2>1. Taken(em, 0, 0) /\ 0 \in Nat /\ 0 <= 0 /\ 0 <= Reach(fd)
    BY <1>2, <1>3, TakenNone
  <2> QED BY <2>1 DEF Hands
<1>4. ASSUME NEW b \in Nat, NEW n \in Nat, Copies(dec, fd, b, n, fd), Quiet(em, n, fd)
      PROVE  Hands(em, em, fd)
  <2>1. Reach(fd) = fd /\ n <= n /\ fd <= fd
    BY <1>1, <1>4 DEF Copies, Reach
  <2> QED BY <1>1, <1>4, <2>1 DEF Quiet, Hands
<1>5. ASSUME NEW b \in Nat, NEW n \in Nat, NEW o \in Nat, Unzips(dec, fd, b, n, o), Quiet(em, n, o)
      PROVE  Hands(em, em, fd)
  <2>1. o <= Yield(file, dec.read) /\ Yield(file, dec.read) <= Reach(fd)
        /\ Yield(file, dec.read) \in Nat
    BY <1>5, HeldIsReached
  <2>2. o <= Reach(fd) /\ n <= n
    BY <1>2, <2>1
  <2> QED BY <1>5, <2>2 DEF Quiet, Hands
<1> QED BY <1>3, <1>4, <1>5 DEF Between

(* A step of the decoder, seen as one of the reader it implements. *)
LEMMA Delivers ==
  ASSUME phase = "reading", file' = file, size' = size,
         IsPrefix(emitted, emitted'), IsPrefix(emitted', Recoverable(Available))
  PROVE  /\ phase' = "reading" => Stream!Read
         /\ phase' = "done" /\ emitted' = Recoverable(Available) => Stream!End
         /\ phase' = "failed" /\ ~Sound => Stream!Fail
<1> DEFINE ended == CASE phase = "reading" -> "no" [] phase = "done" -> "yes" [] OTHER -> "failed"
<1>1. /\ ended = "no"
      /\ phase' = "reading" => ended' = "no"
      /\ phase' = "done" => ended' = "yes"
      /\ phase' = "failed" => ended' = "failed"
  OBVIOUS
<1>2. /\ Recoverable(Available)' = Recoverable(Available)
      /\ Sound' = Sound
  BY SourceKept
<1>3. Stream!Deliver <=>
        /\ ended = "no"
        /\ IsPrefix(emitted, emitted')
        /\ IsPrefix(emitted', Recoverable(Available)')
        /\ Recoverable(Available)' = Recoverable(Available)
        /\ Sound' = Sound
  <2>1. \A s, t : Stream!IsPrefix(s, t) <=> IsPrefix(s, t)
    BY Zenon DEF Stream!IsPrefix, IsPrefix
  <2> HIDE DEF ended
  <2> QED BY <2>1 DEF Stream!Deliver, ended
<1>4. Stream!Deliver
  <2> HIDE DEF ended
  <2> QED BY <1>1, <1>2, <1>3
<1>5. /\ Stream!Read <=> Stream!Deliver /\ ended' = "no"
      /\ Stream!End <=> Stream!Deliver /\ ended' = "yes" /\ emitted' = Recoverable(Available)
      /\ Stream!Fail <=> Stream!Deliver /\ ended' = "failed" /\ ~Sound
  BY Zenon DEF Stream!Read, Stream!End, Stream!Fail
<1> HIDE DEF ended
<1> QED BY <1>1, <1>4, <1>5

LEMMA Starts ==
  ASSUME Init
  PROVE  IInv /\ Stream!Init
<1>1. /\ file \in Files /\ size \in 0 .. DiskLen(file) /\ hint \in {"zstd", "none"}
      /\ fed = 0 /\ emitted = <<>> /\ phase = "reading"
      /\ d = [compression |-> "unknown", started |-> FALSE, finished |-> FALSE, read |-> 0,
              cin |-> <<>>, window |-> <<>>, out |-> <<>>, outPos |-> 0]
  BY DEF Init
<1>2. DiskLen(file) \in Nat /\ MagicLen \in Nat \ {0}
  BY <1>1, DiskShape, SizesAssumption
<1>3. SubSeq(Disk(file), 1, 0) = <<>>
  BY <1>1, DiskShape, SubSeqEmpty
<1>4. d \in Decoder
  BY <1>1 DEF Decoder
<1>5. 0 \in 0 .. DiskLen(file) /\ 0 < MagicLen /\ fed \in 0 .. size
  BY <1>1, <1>2
<1>6. Sniffs(d, 0)
  BY <1>1, <1>3, <1>4, <1>5 DEF Sniffs
<1>7. Between(d, emitted, fed)
  BY <1>1, <1>5, <1>6 DEF Between
<1>8. TruncationIsReported
  BY <1>1 DEF TruncationIsReported
<1>9. Stream!Init
  BY <1>1 DEF Stream!Init
<1> QED BY <1>1, <1>5, <1>7, <1>8, <1>9 DEF IInv

(* A push keeps the invariant, and hands over some records or fails. *)
LEMMA Pushes ==
  ASSUME IInv, NEW n \in 1 .. MaxChunk, Push(n)
  PROVE  IInv' /\ Stream!Next
<1> DEFINE dec == [d EXCEPT !.cin = @ \o SubSeq(Disk(file), fed + 1, fed + n)]
           filled == Fill(dec, FALSE)
<1>1. /\ file \in Files /\ size \in 0 .. DiskLen(file) /\ hint \in {"zstd", "none"}
      /\ fed \in 0 .. size /\ TruncationIsReported
  BY DEF IInv
<1>2. /\ phase = "reading" /\ fed + n <= size /\ fed' = fed + n
      /\ file' = file /\ size' = size /\ hint' = hint /\ completion' = completion
      /\ FillFails(dec, FALSE) => phase' = "failed" /\ d' = d /\ emitted' = emitted
      /\ ~FillFails(dec, FALSE) =>
           /\ d' = Scanned(filled)
           /\ emitted' = emitted \o Found(filled)
           /\ phase' = IF ScanFails(filled) THEN "failed" ELSE phase
  BY DEF Push
<1>3. Between(d, emitted, fed)
  BY <1>2 DEF IInv
<1>4. /\ size \in Nat /\ fed \in Nat /\ n \in Nat /\ fed + n \in Nat
      /\ fed <= size /\ fed + n \in 0 .. size /\ fed + n <= DiskLen(file)
  <2>1. DiskLen(file) \in Nat /\ MaxChunk \in Nat
    BY <1>1, DiskShape, SizesAssumption
  <2> QED BY <1>1, <1>2, <2>1
<1>5. Given(dec, emitted, fed + n)
  BY <1>1, <1>3, <1>4, Pushed
<1> HIDE DEF dec
<1>6. Outcome(dec, emitted, fed + n)
  BY <1>1, <1>5, PushResult
<1>7. FillFails(dec, FALSE) => Corrupts(size)
  BY <1>1, <1>2, <1>4, <1>6, MoreIsReached DEF Outcome
<1> HIDE DEF filled
<1>8. ~FillFails(dec, FALSE) =>
        /\ Hands(emitted, emitted \o Found(filled), size)
        /\ ScanFails(filled) => Breaks(size)
        /\ ~ScanFails(filled) => Between(Scanned(filled), emitted \o Found(filled), fed + n)
  BY <1>1, <1>2, <1>4, <1>6, MoreIsReached DEF Outcome, filled
<1>9. Hands(emitted, emitted, size)
  BY <1>1, <1>3, <1>4, BetweenHands, MoreIsReached
<1>11. TruncationIsReported'
  <2>1. phase' # "done"
    BY <1>2
  <2> QED BY <2>1 DEF TruncationIsReported
<1>12. /\ file' \in Files /\ size' \in 0 .. DiskLen(file') /\ hint' \in {"zstd", "none"}
       /\ fed' \in 0 .. size'
  BY <1>1, <1>2, <1>4
<1>13. CASE FillFails(dec, FALSE)
  <2>1. phase' = "failed" /\ emitted' = emitted /\ ~Sound
    BY <1>1, <1>2, <1>4, <1>7, <1>13, BrokenIsUnsound
  <2>2. IInv'
    BY <1>11, <1>12, <2>1 DEF IInv
  <2>3. IsPrefix(emitted, emitted') /\ IsPrefix(emitted', Recoverable(Available))
    BY <1>1, <1>4, <1>9, <2>1, HandsPart
  <2>4. Stream!Fail
    BY <1>2, <2>1, <2>3, Delivers
  <2> QED BY <2>2, <2>4 DEF Stream!Next
<1>14. CASE ~FillFails(dec, FALSE) /\ ScanFails(filled)
  <2>1. phase' = "failed" /\ emitted' = emitted \o Found(filled) /\ ~Sound
    BY <1>1, <1>2, <1>4, <1>8, <1>14, BrokenIsUnsound
  <2>2. IInv'
    BY <1>11, <1>12, <2>1 DEF IInv
  <2>3. IsPrefix(emitted, emitted') /\ IsPrefix(emitted', Recoverable(Available))
    BY <1>1, <1>4, <1>8, <1>14, <2>1, HandsPart
  <2>4. Stream!Fail
    BY <1>2, <2>1, <2>3, Delivers
  <2> QED BY <2>2, <2>4 DEF Stream!Next
<1>15. CASE ~FillFails(dec, FALSE) /\ ~ScanFails(filled)
  <2>1. phase' = "reading" /\ d' = Scanned(filled) /\ emitted' = emitted \o Found(filled)
    BY <1>2, <1>15
  <2>2. Between(Scanned(filled), emitted \o Found(filled), fed + n)
    BY <1>8, <1>15
  <2>3. ASSUME NEW x, NEW y, NEW z, d' = x, emitted' = y, fed' = z, Between(x, y, z)
        PROVE  Between(d, emitted, fed)'
    BY <1>2, <2>3, BetweenKept
  <2>4. Between(d, emitted, fed)'
    BY <1>2, <2>1, <2>2, <2>3
  <2>5. IInv'
    BY <1>11, <1>12, <2>1, <2>4 DEF IInv
  <2>6. IsPrefix(emitted, emitted') /\ IsPrefix(emitted', Recoverable(Available))
    BY <1>1, <1>4, <1>8, <1>15, <2>1, HandsPart
  <2>7. Stream!Read
    BY <1>2, <2>1, <2>6, Delivers
  <2> QED BY <2>5, <2>7 DEF Stream!Next
<1> QED BY <1>13, <1>14, <1>15

(* So does finish, which ends well only with all that can be recovered. *)
LEMMA Ended ==
  ASSUME IInv, Finish
  PROVE  IInv' /\ Stream!Next
<1> DEFINE filled == Fill(d, TRUE)
           first == First(d)
           last == AfterFlush(d)
           em1 == AtFirst(d, emitted)
           em2 == AtLast(d, emitted)
<1>1. /\ file \in Files /\ size \in 0 .. DiskLen(file) /\ hint \in {"zstd", "none"}
      /\ fed \in 0 .. size
  BY DEF IInv
<1>2. /\ phase = "reading" /\ fed = size
      /\ file' = file /\ size' = size /\ hint' = hint /\ fed' = fed
  BY DEF Finish
<1> HIDE DEF first, last, em1, em2
<1>3. /\ FillFails(d, TRUE) => phase' = "failed" /\ emitted' = emitted
      /\ ~FillFails(d, TRUE) /\ ScanFails(filled) => phase' = "failed" /\ emitted' = em1
      /\ ~FillFails(d, TRUE) /\ ~ScanFails(filled) /\ ScanFails(last) =>
           phase' = "failed" /\ emitted' = em2
      /\ ~FillFails(d, TRUE) /\ ~ScanFails(filled) /\ ~ScanFails(last) =>
           /\ phase' = "done" /\ emitted' = em2
           /\ completion'.truncated <=> Truncated(d)
  <2>1. FillFails(d, TRUE) => phase' = "failed" /\ emitted' = emitted
    BY DEF Finish
  <2>2. ASSUME ~FillFails(d, TRUE), ScanFails(filled)
        PROVE  phase' = "failed" /\ emitted' = emitted \o Found(filled)
    BY <2>2 DEF Finish
  <2> DEFINE scanned == Scanned(filled)
             flushes == Incomplete(scanned) /\ scanned.started
             rest == IF flushes THEN Flushed(scanned) ELSE scanned
             more == IF flushes THEN Found(rest) ELSE <<>>
             trailing == Len(Scanned(rest).out) - Scanned(rest).outPos
             truncated == Incomplete(scanned) \/ Len(Scanned(rest).out) > Scanned(rest).outPos
  <2>3. ASSUME ~FillFails(d, TRUE), ~ScanFails(filled)
        PROVE  /\ emitted' = emitted \o Found(filled) \o more
               /\ ScanFails(rest) => phase' = "failed"
               /\ ~ScanFails(rest) =>
                    /\ phase' = "done"
                    /\ completion' = [trailing |-> trailing, incomplete |-> Incomplete(scanned),
                                      truncated |-> truncated]
    BY <2>3, Zenon DEF Finish
  <2>4. em1 = emitted \o Found(filled) /\ first = scanned
    BY DEF AtFirst, First, em1, first
  <2>6. last = rest /\ (truncated <=> Truncated(d))
    <3>1. Flushes(d) <=> flushes
      BY <2>4, Zenon DEF Flushes, first
    <3>2. last = rest
      <4> HIDE DEF scanned, flushes
      <4> QED BY <2>4, <3>1 DEF AfterFlush, last, first
    <3> HIDE DEF scanned, rest
    <3> QED BY <2>4, <3>2 DEF Truncated, last, first
  <2>7. em2 = em1 \o more
    <3>1. Flushes(d) <=> flushes
      BY <2>4, Zenon DEF Flushes, first
    <3> HIDE DEF rest, flushes
    <3> QED BY <2>6, <3>1 DEF AtLast, em1, em2, last
  <2> HIDE DEF filled, scanned, flushes, rest, more, trailing, truncated
  <2>5. ASSUME ~FillFails(d, TRUE), ~ScanFails(filled)
        PROVE  /\ emitted' = em2
               /\ ScanFails(last) => phase' = "failed"
               /\ ~ScanFails(last) =>
                    phase' = "done" /\ (completion'.truncated <=> Truncated(d))
    BY <2>3, <2>4, <2>5, <2>6, <2>7
  <2> QED BY <2>1, <2>2, <2>4, <2>5
<1> HIDE DEF filled, last
<1>4. Between(d, emitted, size)
  BY <1>2 DEF IInv
<1>5. size \in Nat
  BY <1>1, DiskShape
<1>6. Finishes(d, emitted)
  BY <1>1, <1>4, FinishResult
<1>7. /\ FillFails(d, TRUE) => Corrupts(size)
      /\ ~FillFails(d, TRUE) =>
           /\ Hands(emitted, em1, size)
           /\ ScanFails(filled) => Breaks(size)
           /\ ~ScanFails(filled) =>
                /\ Hands(emitted, em2, size)
                /\ ScanFails(last) => Breaks(size)
                /\ ~ScanFails(last) => Completes(d, emitted)
  BY <1>6 DEF Finishes, filled, last, em1, em2
<1>8. Hands(emitted, emitted, size)
  BY <1>1, <1>4, BetweenHands
<1>10. /\ file' \in Files /\ size' \in 0 .. DiskLen(file') /\ hint' \in {"zstd", "none"}
       /\ fed' \in 0 .. size'
  BY <1>1, <1>2
<1>11. ASSUME phase' = "failed", ~Sound, Hands(emitted, emitted', size)
       PROVE  IInv' /\ Stream!Next
  <2>1. TruncationIsReported'
    BY <1>11 DEF TruncationIsReported
  <2>2. IInv'
    BY <1>10, <1>11, <2>1 DEF IInv
  <2>3. IsPrefix(emitted, emitted') /\ IsPrefix(emitted', Recoverable(Available))
    BY <1>1, <1>5, <1>11, HandsPart
  <2>4. Stream!Fail
    BY <1>2, <1>11, <2>3, Delivers
  <2> QED BY <2>2, <2>4 DEF Stream!Next
<1>12. CASE FillFails(d, TRUE)
  BY <1>1, <1>3, <1>5, <1>7, <1>8, <1>11, <1>12, BrokenIsUnsound
<1>13. CASE ~FillFails(d, TRUE) /\ ScanFails(filled)
  BY <1>1, <1>3, <1>5, <1>7, <1>11, <1>13, BrokenIsUnsound
<1>14. CASE ~FillFails(d, TRUE) /\ ~ScanFails(filled) /\ ScanFails(last)
  BY <1>1, <1>3, <1>5, <1>7, <1>11, <1>14, BrokenIsUnsound
<1>15. CASE ~FillFails(d, TRUE) /\ ~ScanFails(filled) /\ ~ScanFails(last)
  <2>1. phase' = "done" /\ emitted' = em2 /\ (completion'.truncated <=> Truncated(d))
    BY <1>3, <1>15
  <2>2. Hands(emitted, em2, size) /\ Completes(d, emitted)
    BY <1>7, <1>15
  <2>3. Truncated(d) <=> Short
    BY <2>2 DEF Completes
  <2>4. TruncationIsReported'
    BY <1>2, <2>1, <2>3 DEF TruncationIsReported, Short, EndOf
  <2>5. IInv'
    BY <1>10, <2>1, <2>4 DEF IInv
  <2>6. em2 = Recoverable(Available)
    <3>1. PICK m \in Nat : Taken(em2, m, Reach(size)) /\ ~Whole(m, Reach(size))
      BY <2>2 DEF Completes, em2
    <3>2. Available = Reach(size) /\ Reach(size) \in Nat
      BY <1>1, <1>5, AvailableIs
    <3> QED BY <1>1, <3>1, <3>2, TakenAll
  <2>7. IsPrefix(emitted, emitted') /\ IsPrefix(emitted', Recoverable(Available))
    BY <1>1, <1>5, <2>1, <2>2, HandsPart
  <2>8. Stream!End
    BY <1>2, <2>1, <2>6, <2>7, Delivers
  <2> QED BY <2>5, <2>8 DEF Stream!Next
<1> QED BY <1>12, <1>13, <1>14, <1>15

LEMMA Stutters ==
  ASSUME IInv, UNCHANGED vars
  PROVE  IInv' /\ UNCHANGED Stream!vars
<1>1. /\ file' = file /\ size' = size /\ hint' = hint /\ fed' = fed /\ d' = d
      /\ emitted' = emitted /\ phase' = phase /\ completion' = completion
  BY DEF vars
<1>2. /\ Recoverable(Available)' = Recoverable(Available)
      /\ Sound' = Sound
  BY <1>1, SourceKept
<1>3. IInv'
  <2>1. phase = "reading" => Between(d, emitted, fed)'
    <3> SUFFICES ASSUME phase = "reading" PROVE Between(d, emitted, fed)'
      OBVIOUS
    <3>1. Between(d, emitted, fed)
      BY DEF IInv
    <3>2. ASSUME NEW x, NEW y, NEW z, d' = x, emitted' = y, fed' = z, Between(x, y, z)
          PROVE  Between(d, emitted, fed)'
      BY <1>1, <3>2, BetweenKept
    <3> QED BY <1>1, <3>1, <3>2
  <2>2. TruncationIsReported'
    BY <1>1 DEF IInv, TruncationIsReported, EndOf
  <2> QED BY <1>1, <2>1, <2>2 DEF IInv
<1> QED BY <1>1, <1>2, <1>3 DEF Stream!vars

LEMMA Steps ==
  ASSUME IInv, [Next]_vars
  PROVE  IInv' /\ [Stream!Next]_Stream!vars
<1>1. ASSUME NEW n \in 1 .. MaxChunk, Push(n) PROVE IInv' /\ [Stream!Next]_Stream!vars
  BY <1>1, Pushes
<1>2. CASE Finish
  BY <1>2, Ended
<1>3. CASE UNCHANGED vars
  BY <1>3, Stutters
<1> QED BY <1>1, <1>2, <1>3 DEF Next, Over

-----------------------------------------------------------------------------
(***************************************************************************)
(* The theorems.                                                           *)
(***************************************************************************)
(* Whatever the archive and however it is cut, the decoder holds exactly the
   part of it that it has been given and not handed out. *)
THEOREM Invariant == Spec => []IInv
<1>1. Init => IInv
  BY Starts
<1>2. IInv /\ [Next]_vars => IInv'
  BY Steps
<1> QED BY <1>1, <1>2, PTL DEF Spec

(* finish says "truncated" of every archive that ends inside a frame or inside
   a record, and of no other. *)
THEOREM TruncationReported == Spec => []TruncationIsReported
<1>1. IInv => TruncationIsReported
  BY DEF IInv
<1> QED BY <1>1, Invariant, PTL

(* Between calls less than MIN_DECODE_INPUT of compressed input waits. *)
THEOREM InputConsumed == Spec => []InputIsConsumed
<1>1. IInv => InputIsConsumed
  BY DEF IInv, InputIsConsumed, Between, Sniffs, Copies
<1> QED BY <1>1, Invariant, PTL

(* No whole record of an uncompressed archive waits for more input. *)
THEOREM PlainNotDelayed == Spec => []PlainRecordsAreNotDelayed
<1>1. IInv => PlainRecordsAreNotDelayed
  <2> SUFFICES ASSUME IInv, phase = "reading", ~file.zstd, fed >= MagicLen
               PROVE  emitted = Recoverable(fed)
    BY DEF PlainRecordsAreNotDelayed
  <2>1. file \in Files /\ fed \in Nat /\ MagicLen \in Nat /\ Between(d, emitted, fed)
    BY DiskShape, SizesAssumption DEF IInv
  <2>2. PICK b, n \in Nat : Copies(d, fed, b, n, fed) /\ Quiet(emitted, n, fed)
    BY <2>1 DEF Between, Unzips
  <2> QED BY <2>1, <2>2, TakenAll DEF Quiet
<1> QED BY <1>1, Invariant, PTL

(* The decoder implements a reader that knows nothing of chunks, buffers or
   compression: the records that can be recovered go out in order, whole and
   once, all of them before it ends well, and it fails only on a broken file. *)
THEOREM Implements == Spec => ChunkingIsInvisible
<1>1. Init => Stream!Init
  BY Starts
<1>2. IInv /\ [Next]_vars => [Stream!Next]_Stream!vars
  BY Steps
<1> QED BY <1>1, <1>2, Invariant, PTL DEF Spec, ChunkingIsInvisible, Stream!Spec

=============================================================================
