-------------------------- MODULE HistogramProofs --------------------------
(***************************************************************************)
(* For any times, kinds, numbers of bins and widths: every event is        *)
(* counted once, in the bin its time falls in, however the range is        *)
(* extended and coarsened; and the range is no longer than it must be.     *)
(***************************************************************************)
EXTENDS Histogram, Sums, SequenceTheorems

-----------------------------------------------------------------------------
(***************************************************************************)
(* Bins and what belongs in them.                                          *)
(***************************************************************************)
Logs == [Times \X Kinds -> Nat]
Histograms == [start : Nat, width : Nat \ {0}, bins : Nat, series : Seq(Seq(Nat))]

(* The first time of bin i, the time after the last one of bin i - 1. *)
Edge(g, i) == g.start + (i - 1) * g.width

(* The events of kind k that belong in bin i. *)
ClampedTo(s, t) == IF t < s THEN s ELSE t
Cell(g, k, i) ==
  {e \in Times \X {k} : Edge(g, i) <= ClampedTo(g.start, e[1]) /\ ClampedTo(g.start, e[1]) < Edge(g, i + 1)}

(* A histogram of so many kinds, bins in each. *)
Shaped(g, m) ==
  /\ g \in Histograms
  /\ MinBin <= g.width /\ g.bins <= MaxBins
  /\ Len(g.series) = m /\ m \in 0 .. MaxKind
  /\ \A k \in 1 .. m : Len(g.series[k]) = g.bins

(* Bins count what belongs in them. *)
Exact(g, lg) ==
  \A k \in 1 .. Len(g.series) : \A i \in 1 .. g.bins :
    g.series[k][i] = SumFunctionOnSet(lg, Cell(g, k, i))

(* Events lie before the end of the range, and are of kinds that have a row;
   those before its start could not be reached. *)
Covers(g, lg) ==
  \A t \in Times, k \in Kinds :
    lg[<<t, k>>] > 0 => /\ k <= Len(g.series) /\ g.bins > 0
                        /\ t < Edge(g, g.bins + 1)
                        /\ t < g.start => g.start < g.width

(* The last bin holds one of these times. *)
Tight(g, T) == g.bins > 0 => \E u \in T : Edge(g, g.bins) <= u

(* A histogram of the events of lg, that ends with a time of T. *)
Good(g, lg, T, m) ==
  /\ Shaped(g, m)
  /\ lg \in Logs /\ T \subseteq Times
  /\ Exact(g, lg) /\ Covers(g, lg) /\ Tight(g, T)

Logged(lg) == {t \in Times : \E k \in Kinds : lg[<<t, k>>] > 0}

HInv == \E m \in 0 .. MaxKind : Good(h, log, Logged(log), m)

-----------------------------------------------------------------------------
(***************************************************************************)
(* Numbers.                                                                *)
(***************************************************************************)
LEMMA DivBounds ==
  ASSUME NEW a \in Nat, NEW w \in Nat \ {0}
  PROVE  a \div w \in Nat /\ (a \div w) * w <= a /\ a < (a \div w) * w + w
OBVIOUS

LEMMA TimesMonotone ==
  ASSUME NEW a \in Nat, NEW b \in Nat, NEW w \in Nat
  PROVE  a * w \in Nat /\ (a <= b => a * w <= b * w) /\ (a < b => a * w + w <= b * w)
OBVIOUS

(* Half of the bins, rounded up. *)
LEMMA HalfUp ==
  ASSUME NEW b \in Nat
  PROVE  /\ CeilDiv(b, 2) \in Nat /\ CeilDiv(b, 2) <= b
         /\ 2 * CeilDiv(b, 2) = b \/ 2 * CeilDiv(b, 2) = b + 1
         /\ b > 0 => CeilDiv(b, 2) > 0
BY DEF CeilDiv

(* Whole widths that cover a. *)
LEMMA CeilBounds ==
  ASSUME NEW a \in Nat, NEW w \in Nat \ {0}
  PROVE  /\ CeilDiv(a, w) \in Nat /\ a <= CeilDiv(a, w) * w
         /\ a > 0 => (CeilDiv(a, w) > 0 /\ (CeilDiv(a, w) - 1) * w < a)
         /\ a > 0 /\ a <= w => CeilDiv(a, w) = 1
<1> DEFINE b == a + w - 1
           c == b \div w
<1>1. b \in Nat /\ b = a + w - 1
  OBVIOUS
<1>2. c \in Nat /\ c * w <= b /\ b < c * w + w
  <2> HIDE DEF b
  <2> QED BY <1>1, DivBounds
<1>3. CeilDiv(a, w) = c
  BY DEF CeilDiv
<1> HIDE DEF b, c
<1>4. a <= c * w
  <2>1. c * w \in Nat
    BY <1>2
  <2> DEFINE p == c * w
  <2> HIDE DEF p
  <2> QED BY <1>1, <1>2, <2>1 DEF p
<1>5. ASSUME a > 0 PROVE c > 0 /\ (c - 1) * w < a
  <2>1. c # 0
    BY <1>2, <1>4, <1>5
  <2>2. (c - 1) * w = c * w - w
    BY <1>2
  <2> QED BY <1>1, <1>2, <2>1, <2>2
<1>6. ASSUME a > 0, a <= w PROVE c = 1
  <2>1. c >= 1 /\ c \in Nat
    BY <1>2, <1>5, <1>6
  <2>2. c >= 2 => c * w >= 2 * w
    BY <2>1, TimesMonotone
  <2>3. c * w < 2 * w
    BY <1>1, <1>2, <1>6
  <2>4. c * w \in Nat /\ 2 * w \in Nat
    BY <2>1
  <2> QED BY <2>1, <2>2, <2>3, <2>4
<1> QED BY <1>2, <1>3, <1>4, <1>5, <1>6

(* The bin that a time falls in. *)
LEMMA InItsBin ==
  ASSUME NEW g \in Histograms, NEW t \in Nat, t >= g.start
  PROVE  /\ IndexOf(g, t) \in Nat \ {0}
         /\ Edge(g, IndexOf(g, t)) <= t /\ t < Edge(g, IndexOf(g, t) + 1)
<1> DEFINE s == g.start
           w == g.width
           q == (t - s) \div w
<1>1. s \in Nat /\ w \in Nat \ {0} /\ t >= s
  BY DEF Histograms
<1>2. IndexOf(g, t) = q + 1
  BY DEF IndexOf
<1>3. t - s \in Nat
  BY <1>1
<1>4. q \in Nat /\ q * w <= t - s /\ t - s < q * w + w
  <2> HIDE DEF s, w
  <2> QED BY <1>1, <1>3, DivBounds
<1>5. Edge(g, q + 1) = s + q * w /\ Edge(g, (q + 1) + 1) = s + (q + 1) * w
  BY <1>4 DEF Edge
<1> HIDE DEF s, w, q
<1>6. (q + 1) * w = q * w + w /\ q * w \in Nat
  BY <1>1, <1>4
<1> QED BY <1>1, <1>2, <1>4, <1>5, <1>6

(* Edges rise with the bins. *)
LEMMA EdgesRise ==
  ASSUME NEW g \in Histograms, NEW i \in Nat \ {0}, NEW j \in Nat \ {0}
  PROVE  /\ Edge(g, i) \in Nat /\ g.start <= Edge(g, i)
         /\ i <= j => Edge(g, i) <= Edge(g, j)
         /\ Edge(g, 1) = g.start
         /\ Edge(g, i + 1) = Edge(g, i) + g.width
<1> DEFINE s == g.start
           w == g.width
<1>1. s \in Nat /\ w \in Nat \ {0}
  BY DEF Histograms
<1>2. \A k \in Nat \ {0} : Edge(g, k) = s + (k - 1) * w
  BY DEF Edge
<1>3. Edge(g, i + 1) = s + i * w
  BY DEF Edge
<1> HIDE DEF s, w
<1>4. (i - 1) * w \in Nat /\ (i <= j => (i - 1) * w <= (j - 1) * w) /\ (j - 1) * w \in Nat
  BY <1>1, TimesMonotone
<1>5. i * w = (i - 1) * w + w
  BY <1>1
<1> QED BY <1>1, <1>2, <1>3, <1>4, <1>5 DEF s, w

-----------------------------------------------------------------------------
(***************************************************************************)
(* Coarsening.                                                             *)
(***************************************************************************)
(* A histogram put together from its parts. *)
LEMMA MakesHistogram ==
  ASSUME NEW s \in Nat, NEW w \in Nat \ {0}, NEW b \in Nat, NEW m \in Nat, NEW rows,
         MinBin <= w, b <= MaxBins, m <= MaxKind,
         DOMAIN rows = 1 .. m, rows = [k \in 1 .. m |-> rows[k]],
         \A k \in 1 .. m : rows[k] \in Seq(Nat) /\ Len(rows[k]) = b
  PROVE  /\ Shaped(Histo(s, w, b, rows), m)
         /\ Histo(s, w, b, rows).start = s /\ Histo(s, w, b, rows).width = w
         /\ Histo(s, w, b, rows).bins = b /\ Histo(s, w, b, rows).series = rows
<1>1. rows \in [1 .. m -> Seq(Nat)]
  OBVIOUS
<1>2. rows \in Seq(Seq(Nat)) /\ Len(rows) = m
  BY <1>1, SeqDef, LenProperties
<1>3. m \in 0 .. MaxKind
  BY HistogramAssumption
<1> QED BY <1>2, <1>3 DEF Shaped, Histograms, Histo

(* The parts of one. *)
LEMMA ShapedParts ==
  ASSUME NEW g, NEW m, Shaped(g, m)
  PROVE  /\ g \in Histograms /\ m \in Nat /\ m <= MaxKind
         /\ g.start \in Nat /\ g.width \in Nat \ {0} /\ MinBin <= g.width
         /\ g.bins \in Nat /\ g.bins <= MaxBins
         /\ DOMAIN g.series = 1 .. m /\ Len(g.series) = m /\ g.series \in Seq(Seq(Nat))
         /\ \A k \in 1 .. m :
              /\ g.series[k] \in Seq(Nat) /\ Len(g.series[k]) = g.bins
              /\ DOMAIN g.series[k] = 1 .. g.bins
              /\ \A i \in 1 .. g.bins : g.series[k][i] \in Nat
<1>1. g \in Histograms /\ m \in 0 .. MaxKind /\ MaxKind \in Nat
  BY HistogramAssumption DEF Shaped
<1>2. g.series \in Seq(Seq(Nat)) /\ Len(g.series) = m
  BY DEF Shaped, Histograms
<1>3. DOMAIN g.series = 1 .. m /\ \A k \in 1 .. m : g.series[k] \in Seq(Nat)
  BY <1>2, LenProperties, ElementOfSeq
<1>4. \A k \in 1 .. m : Len(g.series[k]) = g.bins
  BY DEF Shaped
<1>5. \A k \in 1 .. m : /\ DOMAIN g.series[k] = 1 .. g.bins
                        /\ \A i \in 1 .. g.bins : g.series[k][i] \in Nat
  BY <1>3, <1>4, LenProperties, ElementOfSeq
<1> QED BY <1>1, <1>2, <1>3, <1>4, <1>5 DEF Shaped, Histograms

(* The cells are finite, and hold numbers. *)
LEMMA CellsFinite ==
  ASSUME NEW lg \in Logs, NEW g, NEW k \in Kinds, NEW i
  PROVE  /\ IsFiniteSet(Cell(g, k, i))
         /\ \A e \in Cell(g, k, i) : lg[e] \in Nat /\ e \in Times \X Kinds
<1>1. IsFiniteSet(Times \X {k})
  <2>1. IsFiniteSet(Times) /\ IsFiniteSet({k})
    BY HistogramAssumption, FS_Singleton
  <2> QED BY <2>1, FS_Product
<1>2. Cell(g, k, i) \subseteq Times \X {k}
  BY DEF Cell
<1>3. IsFiniteSet(Cell(g, k, i))
  BY <1>1, <1>2, FS_Subset
<1> QED BY <1>2, <1>3 DEF Logs

(* What follows the last bin is empty. *)
LEMMA NothingAfter ==
  ASSUME NEW g \in Histograms, NEW lg \in Logs, Covers(g, lg), NEW k \in Kinds,
         NEW i \in Nat, i > g.bins
  PROVE  SumFunctionOnSet(lg, Cell(g, k, i)) = 0
<1>1. \A e \in Cell(g, k, i) : lg[e] = 0
  <2> SUFFICES ASSUME NEW e \in Cell(g, k, i), lg[e] # 0 PROVE FALSE
    OBVIOUS
  <2>1. PICK t \in Times : e = <<t, k>>
    BY DEF Cell
  <2>2. lg[<<t, k>>] > 0 /\ t \in Nat
    BY <2>1, HistogramAssumption DEF Logs
  <2>3. Edge(g, i) <= ClampedTo(g.start, t)
    BY <2>1 DEF Cell
  <2>4. g.bins > 0 /\ t < Edge(g, g.bins + 1)
    BY <2>2, Zenon DEF Covers
  <2>5. g.bins \in Nat /\ g.start \in Nat /\ g.width \in Nat \ {0}
    BY DEF Histograms
  <2> DEFINE b == g.bins + 1
  <2>6. b \in Nat \ {0} /\ b <= i /\ b >= 2 /\ i \in Nat \ {0}
    BY <2>4, <2>5
  <2>7. Edge(g, b) <= Edge(g, i) /\ Edge(g, b) \in Nat /\ Edge(g, i) \in Nat
    <3> HIDE DEF b
    <3> QED BY <2>6, EdgesRise
  <2>8. g.start < Edge(g, b)
    <3>1. Edge(g, g.bins + 1) = Edge(g, g.bins) + g.width /\ g.start <= Edge(g, g.bins)
          /\ Edge(g, g.bins) \in Nat
      BY <2>4, <2>5, EdgesRise
    <3> QED BY <2>5, <3>1
  <2>9. t < Edge(g, b)
    BY <2>4
  <2> HIDE DEF b
  <2> QED BY <2>2, <2>3, <2>5, <2>7, <2>8, <2>9 DEF ClampedTo
<1> QED BY <1>1, CellsFinite, SumZero

(* Two bins become one, without loss, and nothing moves. *)
LEMMA CoarsenKeeps ==
  ASSUME NEW g, NEW lg, NEW T, NEW m, Good(g, lg, T, m)
  PROVE  /\ Good(coarsen(g), lg, T, m)
         /\ coarsen(g).start = g.start /\ coarsen(g).width = 2 * g.width
         /\ coarsen(g).bins = CeilDiv(g.bins, 2)
<1> DEFINE b == g.bins
           w == g.width
           c == CeilDiv(b, 2)
           rows == [k \in DOMAIN g.series |->
                      [i \in 1 .. c |-> g.series[k][2 * i - 1] + Bin(g.series[k], 2 * i)]]
           new == Histo(g.start, 2 * w, c, rows)
<1>1. /\ g \in Histograms /\ m \in Nat /\ m <= MaxKind
      /\ g.start \in Nat /\ w \in Nat \ {0} /\ MinBin <= w
      /\ b \in Nat /\ b <= MaxBins /\ MaxBins \in Nat /\ MinBin \in Nat
      /\ DOMAIN g.series = 1 .. m /\ Len(g.series) = m
      /\ \A k \in 1 .. m :
           /\ g.series[k] \in Seq(Nat) /\ Len(g.series[k]) = b
           /\ \A i \in 1 .. b : g.series[k][i] \in Nat
  BY ShapedParts, HistogramAssumption DEF Good
<1>2. /\ c \in Nat /\ c <= b /\ (2 * c = b \/ 2 * c = b + 1) /\ (b > 0 => c > 0)
  BY <1>1, HalfUp
<1>3. coarsen(g) = new
  BY DEF coarsen
<1>4. \A i \in 1 .. c : 2 * i - 1 \in 1 .. b /\ 2 * i \in 1 .. b + 1
  <2> HIDE DEF b, c
  <2> QED BY <1>1, <1>2
<1>5. \A k \in 1 .. m : \A i \in 1 .. c :
        /\ rows[k][i] = g.series[k][2 * i - 1] + Bin(g.series[k], 2 * i)
        /\ rows[k][i] \in Nat
  <2> TAKE k \in 1 .. m
  <2> TAKE i \in 1 .. c
  <2>1. rows[k][i] = g.series[k][2 * i - 1] + Bin(g.series[k], 2 * i)
    BY <1>1
  <2>2. g.series[k][2 * i - 1] \in Nat
    BY <1>1, <1>4
  <2>3. Bin(g.series[k], 2 * i) \in Nat
    <3>1. 2 * i <= b => 2 * i \in 1 .. b
      BY <1>1, <1>4
    <3>2. Len(g.series[k]) = b
      BY <1>1
    <3> QED BY <1>1, <3>1, <3>2 DEF Bin
  <2> QED BY <2>1, <2>2, <2>3
<1>6. \A k \in 1 .. m : rows[k] \in Seq(Nat) /\ Len(rows[k]) = c
  <2> TAKE k \in 1 .. m
  <2>1. rows[k] = [i \in 1 .. c |-> rows[k][i]]
    BY <1>1
  <2>2. rows[k] \in [1 .. c -> Nat]
    <3> HIDE DEF rows, c
    <3> QED BY <1>5, <2>1
  <2> HIDE DEF rows, c
  <2> QED BY <1>2, <2>2, SeqDef, LenProperties
<1>7. DOMAIN rows = 1 .. m /\ rows = [k \in 1 .. m |-> rows[k]]
  BY <1>1
<1>8. 2 * w \in Nat \ {0} /\ MinBin <= 2 * w /\ c <= MaxBins
  BY <1>1, <1>2
<1> HIDE DEF rows, c, w, b
<1>9. /\ Shaped(new, m)
      /\ new.start = g.start /\ new.width = 2 * w /\ new.bins = c /\ new.series = rows
  <2>1. g.start \in Nat /\ m \in Nat /\ m <= MaxKind
    BY <1>1
  <2> QED BY <1>2, <1>6, <1>7, <1>8, <2>1, MakesHistogram DEF new
<1> HIDE DEF new
<1>10. new \in Histograms /\ Len(new.series) = m
  BY <1>9, ShapedParts
<1>11. \A i \in Nat \ {0} : /\ Edge(new, i) = Edge(g, 2 * i - 1)
                            /\ Edge(new, i + 1) = Edge(g, 2 * i + 1)
                            /\ Edge(g, 2 * i - 1) <= Edge(g, 2 * i) /\ Edge(g, 2 * i) <= Edge(g, 2 * i + 1)
                            /\ Edge(g, 2 * i - 1) \in Nat /\ Edge(g, 2 * i) \in Nat /\ Edge(g, 2 * i + 1) \in Nat
  <2> TAKE i \in Nat \ {0}
  <2>1. Edge(new, i) = g.start + (i - 1) * (2 * w) /\ Edge(new, i + 1) = g.start + i * (2 * w)
    BY <1>9 DEF Edge
  <2>2. Edge(g, 2 * i - 1) = g.start + (2 * i - 1 - 1) * w /\ Edge(g, 2 * i + 1) = g.start + (2 * i) * w
    BY DEF Edge, w
  <2>3. (i - 1) * (2 * w) = (2 * i - 1 - 1) * w /\ i * (2 * w) = (2 * i) * w
    BY <1>1
  <2>4. 2 * i - 1 \in Nat \ {0} /\ 2 * i \in Nat \ {0} /\ 2 * i + 1 \in Nat \ {0}
    OBVIOUS
  <2>5. 2 * i - 1 <= 2 * i /\ 2 * i <= 2 * i + 1
    OBVIOUS
  <2>6. Edge(g, 2 * i - 1) <= Edge(g, 2 * i) /\ Edge(g, 2 * i) <= Edge(g, 2 * i + 1)
    BY <1>1, <2>4, <2>5, EdgesRise
  <2>7. Edge(g, 2 * i - 1) \in Nat /\ Edge(g, 2 * i) \in Nat /\ Edge(g, 2 * i + 1) \in Nat
    BY <1>1, <2>4, EdgesRise
  <2> QED BY <2>1, <2>2, <2>3, <2>6, <2>7
<1>12. lg \in Logs /\ Covers(g, lg) /\ Exact(g, lg) /\ Tight(g, T)
  BY DEF Good
<1>13. Exact(new, lg)
  <2> SUFFICES ASSUME NEW k \in 1 .. m, NEW i \in 1 .. c
               PROVE  rows[k][i] = SumFunctionOnSet(lg, Cell(new, k, i))
    BY <1>9, <1>10 DEF Exact
  <2>1. k \in Kinds /\ i \in Nat \ {0}
    BY <1>1, <1>2, HistogramAssumption DEF Kinds
  <2> DEFINE left == Cell(g, k, 2 * i - 1)
             right == Cell(g, k, 2 * i)
  <2>2. /\ Edge(new, i) = Edge(g, 2 * i - 1)
        /\ Edge(new, i + 1) = Edge(g, 2 * i + 1)
        /\ Edge(g, 2 * i - 1) <= Edge(g, 2 * i) /\ Edge(g, 2 * i) <= Edge(g, 2 * i + 1)
        /\ Edge(g, 2 * i - 1) \in Nat /\ Edge(g, 2 * i) \in Nat /\ Edge(g, 2 * i + 1) \in Nat
    BY <1>11, <2>1
  <2>3. Edge(g, (2 * i - 1) + 1) = Edge(g, 2 * i)
    BY <2>1
  <2>4. \A e \in Times \X {k} : ClampedTo(g.start, e[1]) \in Nat
    BY <1>1, HistogramAssumption DEF ClampedTo
  <2>5. Cell(new, k, i) = left \cup right /\ left \cap right = {}
    BY <1>9, <2>2, <2>3, <2>4 DEF Cell
  <2>6. /\ IsFiniteSet(left) /\ IsFiniteSet(right)
        /\ \A e \in left \cup right : lg[e] \in Nat
    BY <1>12, <2>1, CellsFinite
  <2>7. SumFunctionOnSet(lg, left \cup right) = SumFunctionOnSet(lg, left) + SumFunctionOnSet(lg, right)
    <3> HIDE DEF left, right
    <3> QED BY <2>5, <2>6, SumUnion
  <2>8. g.series[k][2 * i - 1] = SumFunctionOnSet(lg, left)
    BY <1>1, <1>4, <1>12 DEF Exact, b
  <2>9. Bin(g.series[k], 2 * i) = SumFunctionOnSet(lg, right)
    <3>1. CASE 2 * i <= b
      <4>1. 2 * i \in 1 .. b
        BY <1>1, <2>1, <3>1
      <4>2. g.series[k][2 * i] = SumFunctionOnSet(lg, right)
        BY <1>1, <1>12, <4>1 DEF Exact, b
      <4> QED BY <1>1, <3>1, <4>2 DEF Bin
    <3>2. CASE ~(2 * i <= b)
      <4>1. 2 * i > g.bins /\ 2 * i \in Nat
        BY <1>1, <2>1, <3>2 DEF b
      <4>2. SumFunctionOnSet(lg, right) = 0
        BY <1>1, <1>12, <2>1, <4>1, NothingAfter
      <4> QED BY <1>1, <3>2, <4>2 DEF Bin
    <3> QED BY <3>1, <3>2
  <2> QED BY <1>5, <2>5, <2>7, <2>8, <2>9
<1>14. Covers(new, lg)
  <2> SUFFICES ASSUME NEW t \in Times, NEW k \in Kinds, lg[<<t, k>>] > 0
               PROVE  /\ k <= m /\ c > 0
                      /\ t < Edge(new, c + 1)
                      /\ t < g.start => g.start < 2 * w
    BY <1>9, <1>10 DEF Covers
  <2>1. k <= m /\ b > 0 /\ t < Edge(g, b + 1) /\ (t < g.start => g.start < w)
    <3>1. /\ k <= Len(g.series) /\ g.bins > 0
          /\ t < Edge(g, g.bins + 1)
          /\ t < g.start => g.start < g.width
      BY <1>12, Zenon DEF Covers
    <3> QED BY <1>1, <3>1 DEF b, w
  <2>2. c \in Nat \ {0} /\ 2 * c + 1 \in Nat \ {0} /\ b + 1 \in Nat \ {0} /\ b + 1 <= 2 * c + 1
    BY <1>1, <1>2, <2>1
  <2>3. Edge(new, c + 1) = Edge(g, 2 * c + 1)
    BY <1>11, <2>2
  <2>4. Edge(g, b + 1) <= Edge(g, 2 * c + 1) /\ Edge(g, b + 1) \in Nat /\ Edge(g, 2 * c + 1) \in Nat
    BY <1>1, <2>2, EdgesRise
  <2>5. t \in Nat
    BY HistogramAssumption
  <2>6. t < Edge(new, c + 1)
    BY <2>1, <2>3, <2>4, <2>5
  <2>7. g.start < w => g.start < 2 * w
    BY <1>1
  <2> QED BY <2>1, <2>2, <2>6, <2>7
<1>15. Tight(new, T)
  <2> SUFFICES ASSUME c > 0 PROVE \E u \in T : Edge(new, c) <= u
    BY <1>9 DEF Tight
  <2>1. b > 0
    BY <1>1, <1>2
  <2>2. PICK u \in T : Edge(g, b) <= u
    BY <1>12, <2>1 DEF Tight, b
  <2>3. 2 * c - 1 \in Nat \ {0} /\ b \in Nat \ {0} /\ 2 * c - 1 <= b /\ c \in Nat \ {0}
    BY <1>1, <1>2, <2>1
  <2>4. Edge(new, c) = Edge(g, 2 * c - 1)
    BY <1>11, <2>3
  <2>5. Edge(g, 2 * c - 1) <= Edge(g, b) /\ Edge(g, 2 * c - 1) \in Nat /\ Edge(g, b) \in Nat
    BY <1>1, <2>3, EdgesRise
  <2>6. u \in Nat
    BY HistogramAssumption DEF Good
  <2> QED BY <2>2, <2>4, <2>5, <2>6
<1>16. Good(new, lg, T, m)
  BY <1>9, <1>12, <1>13, <1>14, <1>15 DEF Good
<1> QED BY <1>3, <1>9, <1>16 DEF b, w, c

-----------------------------------------------------------------------------
(***************************************************************************)
(* New kinds, new bins and new events.                                     *)
(***************************************************************************)
(* What is not logged adds nothing. *)
LEMMA NoneLogged ==
  ASSUME NEW lg \in Logs, NEW g, NEW k \in Kinds, NEW i, \A t \in Times : ~(lg[<<t, k>>] > 0)
  PROVE  SumFunctionOnSet(lg, Cell(g, k, i)) = 0
<1>1. \A e \in Cell(g, k, i) : lg[e] = 0
  <2> TAKE e \in Cell(g, k, i)
  <2>1. PICK t \in Times : e = <<t, k>>
    BY DEF Cell
  <2>2. lg[<<t, k>>] \in Nat /\ ~(lg[<<t, k>>] > 0)
    BY <2>1 DEF Logs
  <2> QED BY <2>1, <2>2
<1> QED BY <1>1, CellsFinite, SumZero

(* Cells are told apart by where bins start. *)
LEMMA SameEdgesSameCells ==
  ASSUME NEW g, NEW c, g.start = c.start, g.width = c.width
  PROVE  /\ \A i : Edge(g, i) = Edge(c, i)
         /\ \A k, i : Cell(g, k, i) = Cell(c, k, i)
<1>1. \A i : Edge(g, i) = Edge(c, i)
  BY DEF Edge
<1> QED BY <1>1 DEF Cell

(* A row of zeroes. *)
LEMMA ZeroRow ==
  ASSUME NEW n \in Nat
  PROVE  /\ Zeroes(n) \in Seq(Nat) /\ Len(Zeroes(n)) = n
         /\ \A i \in 1 .. n : Zeroes(n)[i] = 0
<1>1. Zeroes(n) \in [1 .. n -> Nat]
  BY DEF Zeroes
<1>2. Zeroes(n) \in Seq(Nat) /\ Len(Zeroes(n)) = n
  BY <1>1, SeqDef, LenProperties
<1> QED BY <1>2 DEF Zeroes

(* A kind gets a row. *)
LEMMA KindKeeps ==
  ASSUME NEW g, NEW lg, NEW T, NEW m, Good(g, lg, T, m), NEW k \in Kinds
  PROVE  \E n \in 0 .. MaxKind : k <= n /\ Good(ensure_kind(g, k), lg, T, n)
<1> DEFINE b == g.bins
           d == IF k > m THEN k - m ELSE 0
           more == [i \in 1 .. d |-> Zeroes(b)]
           rows == g.series \o more
           new == Histo(g.start, g.width, b, rows)
           n == m + d
<1>1. /\ g \in Histograms /\ m \in Nat /\ m <= MaxKind
      /\ g.start \in Nat /\ g.width \in Nat \ {0} /\ MinBin <= g.width
      /\ b \in Nat /\ b <= MaxBins
      /\ g.series \in Seq(Seq(Nat)) /\ Len(g.series) = m
      /\ \A j \in 1 .. m : g.series[j] \in Seq(Nat) /\ Len(g.series[j]) = b
  BY ShapedParts DEF Good
<1>2. k \in Nat /\ k <= MaxKind /\ MaxKind \in Nat
  BY HistogramAssumption DEF Kinds
<1>3. d \in Nat /\ n \in Nat /\ n <= MaxKind /\ k <= n /\ n \in 0 .. MaxKind /\ m <= n
  BY <1>1, <1>2
<1>4. ensure_kind(g, k) = new
  <2>1. ensure_kind(g, k) = [g EXCEPT !.series = rows]
    BY <1>1 DEF ensure_kind
  <2> HIDE DEF rows
  <2> QED BY <1>1, <2>1 DEF Histograms, Histo
<1>5. more \in Seq(Seq(Nat)) /\ Len(more) = d
  <2>1. more \in [1 .. d -> Seq(Nat)]
    BY <1>1, ZeroRow
  <2> HIDE DEF d
  <2> QED BY <1>3, <2>1, SeqDef, LenProperties
<1>6. \A j \in 1 .. d : more[j] = Zeroes(b)
  OBVIOUS
<1> HIDE DEF d, more, b
<1>7. rows \in Seq(Seq(Nat)) /\ Len(rows) = n
      /\ \A j \in 1 .. n : rows[j] = IF j <= m THEN g.series[j] ELSE more[j - m]
  <2>1. g.series \in Seq(Seq(Nat)) /\ Len(g.series) = m
    BY <1>1
  <2> HIDE DEF n
  <2>2. rows \in Seq(Seq(Nat)) /\ Len(rows) = m + d
        /\ \A j \in 1 .. m + d : rows[j] = IF j <= m THEN g.series[j] ELSE more[j - m]
    BY <1>5, <2>1, ConcatProperties
  <2> QED BY <2>2 DEF n
<1> HIDE DEF rows
<1>8. \A j \in 1 .. n : /\ rows[j] \in Seq(Nat) /\ Len(rows[j]) = b
                        /\ j <= m => rows[j] = g.series[j]
                        /\ j > m => \A i \in 1 .. b : rows[j][i] = 0
  <2> TAKE j \in 1 .. n
  <2>1. CASE j <= m
    <3>1. j \in 1 .. m /\ rows[j] = g.series[j]
      BY <1>1, <1>3, <1>7, <2>1
    <3> QED BY <1>1, <2>1, <3>1
  <2>2. CASE j > m
    <3> DEFINE p == j - m
    <3>1. p \in 1 .. d /\ ~(j <= m)
      BY <1>1, <1>3, <2>2
    <3>2. rows[j] = more[p]
      BY <1>7, <3>1
    <3> HIDE DEF p
    <3>3. rows[j] = Zeroes(b)
      BY <1>6, <3>1, <3>2
    <3>4. /\ Zeroes(b) \in Seq(Nat) /\ Len(Zeroes(b)) = b
          /\ \A i \in 1 .. b : Zeroes(b)[i] = 0
      BY <1>1, ZeroRow
    <3> QED BY <3>1, <3>3, <3>4
  <2> QED BY <1>1, <1>3, <2>1, <2>2
<1>9. DOMAIN rows = 1 .. n /\ rows = [j \in 1 .. n |-> rows[j]]
  <2> HIDE DEF n
  <2> QED BY <1>7, LenProperties
<1>10. /\ Shaped(new, n)
       /\ new.start = g.start /\ new.width = g.width /\ new.bins = b /\ new.series = rows
  <2>1. \A j \in 1 .. n : rows[j] \in Seq(Nat) /\ Len(rows[j]) = b
    BY <1>8
  <2>2. g.start \in Nat /\ g.width \in Nat \ {0} /\ MinBin <= g.width /\ b \in Nat /\ b <= MaxBins
    BY <1>1
  <2>3. n \in Nat /\ n <= MaxKind
    BY <1>3
  <2> HIDE DEF n
  <2> QED BY <1>9, <2>1, <2>2, <2>3, MakesHistogram
<1> HIDE DEF new
<1>11. new \in Histograms /\ Len(new.series) = n
  BY <1>7, <1>10 DEF Shaped
<1>12. lg \in Logs /\ Covers(g, lg) /\ Exact(g, lg) /\ Tight(g, T)
  BY DEF Good
<1>13. (\A i : Edge(new, i) = Edge(g, i)) /\ \A j, i : Cell(new, j, i) = Cell(g, j, i)
  BY <1>10, SameEdgesSameCells
<1>14. Exact(new, lg)
  <2> SUFFICES ASSUME NEW j \in 1 .. n, NEW i \in 1 .. b
               PROVE  rows[j][i] = SumFunctionOnSet(lg, Cell(g, j, i))
    BY <1>10, <1>11, <1>13 DEF Exact
  <2>1. CASE j <= m
    <3>1. j \in 1 .. Len(g.series) /\ i \in 1 .. g.bins /\ rows[j] = g.series[j]
      BY <1>1, <1>3, <1>8, <2>1 DEF b
    <3> QED BY <1>12, <3>1 DEF Exact
  <2>2. CASE j > m
    <3>1. j \in Kinds /\ j \in Nat
      BY <1>2, <1>3 DEF Kinds
    <3>2. \A t \in Times : ~(lg[<<t, j>>] > 0)
      BY <1>1, <1>12, <2>2, <3>1 DEF Covers
    <3> QED BY <1>8, <1>12, <2>2, <3>1, <3>2, NoneLogged
  <2> QED BY <1>1, <1>3, <2>1, <2>2
<1>15. Covers(new, lg)
  <2> SUFFICES ASSUME NEW t \in Times, NEW j \in Kinds, lg[<<t, j>>] > 0
               PROVE  /\ j <= n /\ b > 0 /\ t < Edge(g, b + 1)
                      /\ t < g.start => g.start < g.width
    BY <1>10, <1>11, <1>13 DEF Covers
  <2>1. /\ j <= m /\ b > 0 /\ t < Edge(g, b + 1)
        /\ t < g.start => g.start < g.width
    BY <1>1, <1>12 DEF Covers, b
  <2>2. j \in Nat
    BY DEF Kinds
  <2> QED BY <1>1, <1>3, <2>1, <2>2
<1>16. Tight(new, T)
  BY <1>10, <1>12, <1>13 DEF Tight, b
<1>17. Good(new, lg, T, n)
  BY <1>10, <1>12, <1>14, <1>15, <1>16 DEF Good
<1> QED BY <1>3, <1>4, <1>17

(* The rest of what adding a kind leaves. *)
LEMMA KindLeaves ==
  ASSUME NEW g \in Histograms, NEW k
  PROVE  /\ ensure_kind(g, k).start = g.start /\ ensure_kind(g, k).width = g.width
         /\ ensure_kind(g, k).bins = g.bins
BY DEF ensure_kind, Histograms

(* Bins are put after the last one, up to the bin of t. *)
LEMMA GrownKeeps ==
  ASSUME NEW g, NEW lg, NEW T, NEW m, Good(g, lg, T, m), NEW t \in Times, t >= g.start,
         NEW n, n = IndexOf(g, t), g.bins < n, n <= MaxBins
  PROVE  /\ Good(set_bins(g, n), lg, T \cup {t}, m)
         /\ set_bins(g, n).start = g.start /\ set_bins(g, n).width = g.width
         /\ set_bins(g, n).bins = n
<1> DEFINE b == g.bins
           rows == [k \in DOMAIN g.series |-> [i \in 1 .. n |-> IF i <= b THEN g.series[k][i] ELSE 0]]
           new == Histo(g.start, g.width, n, rows)
<1>1. /\ g \in Histograms /\ m \in Nat /\ m <= MaxKind
      /\ g.start \in Nat /\ g.width \in Nat \ {0} /\ MinBin <= g.width
      /\ b \in Nat /\ b <= MaxBins
      /\ DOMAIN g.series = 1 .. m /\ Len(g.series) = m
      /\ \A k \in 1 .. m : \A i \in 1 .. b : g.series[k][i] \in Nat
  BY ShapedParts DEF Good
<1>2. t \in Nat /\ MaxKind \in Nat
  BY HistogramAssumption
<1>3. n \in Nat \ {0} /\ Edge(g, n) <= t /\ t < Edge(g, n + 1)
  BY <1>1, <1>2, InItsBin
<1>4. set_bins(g, n) = new
  BY DEF set_bins
<1>5. \A k \in 1 .. m : \A i \in 1 .. n : rows[k][i] = IF i <= b THEN g.series[k][i] ELSE 0
  BY <1>1
<1>6. \A k \in 1 .. m : rows[k] \in Seq(Nat) /\ Len(rows[k]) = n
  <2> TAKE k \in 1 .. m
  <2>1. rows[k] = [i \in 1 .. n |-> IF i <= b THEN g.series[k][i] ELSE 0]
    BY <1>1
  <2>2. \A i \in 1 .. n : (IF i <= b THEN g.series[k][i] ELSE 0) \in Nat
    <3> TAKE i \in 1 .. n
    <3>1. i <= b => i \in 1 .. b
      BY <1>1
    <3> QED BY <1>1, <3>1
  <2>3. rows[k] \in [1 .. n -> Nat]
    BY <2>1, <2>2
  <2> HIDE DEF rows
  <2> QED BY <1>3, <2>3, SeqDef, LenProperties
<1>7. DOMAIN rows = 1 .. m /\ rows = [k \in 1 .. m |-> rows[k]]
  BY <1>1
<1> HIDE DEF rows, b
<1>8. /\ Shaped(new, m)
      /\ new.start = g.start /\ new.width = g.width /\ new.bins = n /\ new.series = rows
  <2>1. g.start \in Nat /\ g.width \in Nat \ {0} /\ MinBin <= g.width /\ m \in Nat /\ m <= MaxKind
    BY <1>1
  <2> QED BY <1>3, <1>6, <1>7, <2>1, MakesHistogram
<1> HIDE DEF new
<1>9. new \in Histograms /\ Len(new.series) = m
  BY <1>8 DEF Shaped
<1>10. lg \in Logs /\ T \subseteq Times /\ Covers(g, lg) /\ Exact(g, lg)
  BY DEF Good
<1>11. (\A i : Edge(new, i) = Edge(g, i)) /\ \A k, i : Cell(new, k, i) = Cell(g, k, i)
  BY <1>8, SameEdgesSameCells
<1>12. Exact(new, lg)
  <2> SUFFICES ASSUME NEW k \in 1 .. m, NEW i \in 1 .. n
               PROVE  rows[k][i] = SumFunctionOnSet(lg, Cell(g, k, i))
    BY <1>8, <1>9, <1>11 DEF Exact
  <2>1. k \in Kinds /\ i \in Nat
    BY <1>1, <1>2, <1>3 DEF Kinds
  <2>2. CASE i <= b
    <3>1. i \in 1 .. g.bins /\ k \in 1 .. Len(g.series)
      BY <1>1, <1>3, <2>2 DEF b
    <3>2. g.series[k][i] = SumFunctionOnSet(lg, Cell(g, k, i))
      BY <1>10, <3>1 DEF Exact
    <3> QED BY <1>5, <2>2, <3>2
  <2>3. CASE ~(i <= b)
    <3>1. i > g.bins
      BY <1>1, <2>1, <2>3 DEF b
    <3>2. SumFunctionOnSet(lg, Cell(g, k, i)) = 0
      BY <1>1, <1>10, <2>1, <3>1, NothingAfter
    <3> QED BY <1>5, <2>3, <3>2
  <2> QED BY <2>2, <2>3
<1>13. Covers(new, lg)
  <2> SUFFICES ASSUME NEW u \in Times, NEW k \in Kinds, lg[<<u, k>>] > 0
               PROVE  /\ k <= m /\ n > 0 /\ u < Edge(g, n + 1)
                      /\ u < g.start => g.start < g.width
    BY <1>8, <1>9, <1>11 DEF Covers
  <2>1. /\ k <= m /\ b > 0 /\ u < Edge(g, b + 1)
        /\ u < g.start => g.start < g.width
    BY <1>1, <1>10 DEF Covers, b
  <2>2. b + 1 \in Nat \ {0} /\ n + 1 \in Nat \ {0} /\ b + 1 <= n + 1
    BY <1>1, <1>3 DEF b
  <2>3. Edge(g, b + 1) <= Edge(g, n + 1) /\ Edge(g, b + 1) \in Nat /\ Edge(g, n + 1) \in Nat
    BY <1>1, <2>2, EdgesRise
  <2>4. u \in Nat
    BY HistogramAssumption
  <2> QED BY <1>3, <2>1, <2>3, <2>4
<1>14. Tight(new, T \cup {t})
  BY <1>3, <1>8, <1>11 DEF Tight
<1>15. Good(new, lg, T \cup {t}, m)
  BY <1>8, <1>10, <1>12, <1>13, <1>14 DEF Good
<1> QED BY <1>4, <1>8, <1>15

(* A later time may end the range, if an earlier one did. *)
LEMMA TightGrows ==
  ASSUME NEW g, NEW lg, NEW T, NEW m, Good(g, lg, T, m), NEW t \in Times
  PROVE  Good(g, lg, T \cup {t}, m)
BY DEF Good, Tight

(* An event is counted in the bin it belongs in. *)
LEMMA CountKeeps ==
  ASSUME NEW g, NEW lg, NEW T, NEW m, Good(g, lg, T, m),
         NEW t \in Times, NEW k \in Kinds, k <= m, NEW n \in 1 .. g.bins,
         <<t, k>> \in Cell(g, k, n), t < g.start => g.start < g.width
  PROVE  Good(Counted(g, k, n), [lg EXCEPT ![<<t, k>>] = @ + 1], T, m)
<1> DEFINE row == [g.series[k] EXCEPT ![n] = g.series[k][n] + 1]
           rows == [g.series EXCEPT ![k] = row]
           lh == [lg EXCEPT ![<<t, k>>] = @ + 1]
           b == g.bins
           new == Histo(g.start, g.width, b, rows)
<1>1. /\ g \in Histograms /\ m \in Nat /\ m <= MaxKind
      /\ g.start \in Nat /\ g.width \in Nat \ {0} /\ MinBin <= g.width
      /\ b \in Nat /\ b <= MaxBins
      /\ DOMAIN g.series = 1 .. m /\ Len(g.series) = m /\ g.series \in Seq(Seq(Nat))
      /\ \A j \in 1 .. m : /\ g.series[j] \in Seq(Nat) /\ Len(g.series[j]) = b
                           /\ DOMAIN g.series[j] = 1 .. b
                           /\ \A i \in 1 .. b : g.series[j][i] \in Nat
  BY ShapedParts DEF Good
<1>2. t \in Nat /\ MaxKind \in Nat /\ k \in 1 .. m /\ n \in Nat \ {0} /\ n <= b
  BY <1>1, HistogramAssumption DEF Kinds
<1>3. Counted(g, k, n) = new
  <2>1. Counted(g, k, n) = [g EXCEPT !.series = rows]
    BY Zenon DEF Counted
  <2> HIDE DEF rows
  <2> QED BY <1>1, <2>1 DEF Histograms, Histo
<1> HIDE DEF row
<1>4. \A j \in 1 .. m : rows[j] = IF j = k THEN row ELSE g.series[j]
  BY <1>1
<1>5. DOMAIN rows = 1 .. m /\ rows = [j \in 1 .. m |-> rows[j]]
  BY <1>1
<1> HIDE DEF rows
<1>4a. row \in [1 .. b -> Nat] /\ \A i \in 1 .. b : row[i] = IF i = n THEN g.series[k][i] + 1 ELSE g.series[k][i]
  <2>1. g.series[k] \in [1 .. b -> Nat]
    <3>1. g.series[k] \in Seq(Nat) /\ Len(g.series[k]) = b
      BY <1>1, <1>2
    <3> QED BY <3>1, LenProperties
  <2> DEFINE f == g.series[k]
  <2>2. row = [f EXCEPT ![n] = f[n] + 1]
    BY DEF row
  <2> HIDE DEF b, f
  <2>3. f \in [1 .. b -> Nat] /\ n \in 1 .. b
    BY <1>2, <2>1 DEF b, f
  <2>4. row \in [1 .. b -> Nat] /\ \A i \in 1 .. b : row[i] = IF i = n THEN f[i] + 1 ELSE f[i]
    BY <2>2, <2>3
  <2> QED BY <2>4 DEF f
<1>6. \A j \in 1 .. m : \A i \in 1 .. b :
        rows[j][i] = IF j = k /\ i = n THEN g.series[j][i] + 1 ELSE g.series[j][i]
  BY <1>4, <1>4a
<1>7. \A j \in 1 .. m : rows[j] \in Seq(Nat) /\ Len(rows[j]) = b
  <2> TAKE j \in 1 .. m
  <2>1. CASE j # k
    BY <1>1, <1>4, <2>1
  <2>2. CASE j = k
    <3>1. rows[j] \in [1 .. b -> Nat]
      BY <1>4, <1>4a, <2>2
    <3> HIDE DEF b
    <3> QED BY <1>1, <3>1, SeqDef, LenProperties
  <2> QED BY <2>1, <2>2
<1> HIDE DEF b
<1>8. /\ Shaped(new, m)
      /\ new.start = g.start /\ new.width = g.width /\ new.bins = b /\ new.series = rows
  <2>1. /\ g.start \in Nat /\ g.width \in Nat \ {0} /\ MinBin <= g.width /\ m \in Nat /\ m <= MaxKind
        /\ b \in Nat /\ b <= MaxBins
    BY <1>1
  <2> QED BY <1>5, <1>7, <2>1, MakesHistogram
<1> HIDE DEF new
<1>9. new \in Histograms /\ Len(new.series) = m
  BY <1>8 DEF Shaped
<1>10. lg \in Logs /\ T \subseteq Times /\ Covers(g, lg) /\ Exact(g, lg) /\ Tight(g, T)
  BY DEF Good
<1>11. (\A i : Edge(new, i) = Edge(g, i)) /\ \A j, i : Cell(new, j, i) = Cell(g, j, i)
  BY <1>8, SameEdgesSameCells
<1>12. /\ lh \in Logs /\ lh[<<t, k>>] = lg[<<t, k>>] + 1
       /\ \A e \in Times \X Kinds : e # <<t, k>> => lh[e] = lg[e]
  BY <1>10 DEF Logs
<1> HIDE DEF lh
<1>13. \A j \in 1 .. m : \A i \in 1 .. b : <<t, k>> \in Cell(g, j, i) <=> j = k /\ i = n
  <2> TAKE j \in 1 .. m
  <2> TAKE i \in 1 .. b
  <2>1. j # k => <<t, k>> \notin Cell(g, j, i)
    BY DEF Cell
  <2>2. i # n => <<t, k>> \notin Cell(g, k, i)
    <3> DEFINE u == ClampedTo(g.start, t)
    <3>1. u \in Nat /\ Edge(g, n) <= u /\ u < Edge(g, n + 1)
      <4>1. <<t, k>>[1] = t
        OBVIOUS
      <4> QED BY <1>1, <1>2, <4>1 DEF Cell, ClampedTo
    <3>2. <<t, k>> \in Cell(g, k, i) => Edge(g, i) <= u /\ u < Edge(g, i + 1)
      BY DEF Cell
    <3> HIDE DEF u
    <3>3. i \in Nat \ {0} /\ i + 1 \in Nat \ {0} /\ n + 1 \in Nat \ {0}
      BY <1>1, <1>2
    <3>4. /\ Edge(g, i) \in Nat /\ Edge(g, i + 1) \in Nat /\ Edge(g, n) \in Nat /\ Edge(g, n + 1) \in Nat
          /\ i + 1 <= n => Edge(g, i + 1) <= Edge(g, n)
          /\ n + 1 <= i => Edge(g, n + 1) <= Edge(g, i)
      BY <1>1, <1>2, <3>3, EdgesRise
    <3>5. i # n => i + 1 <= n \/ n + 1 <= i
      BY <1>2, <3>3
    <3> QED BY <3>1, <3>2, <3>4, <3>5
  <2> QED BY <2>1, <2>2
<1>14. Exact(new, lh)
  <2> SUFFICES ASSUME NEW j \in 1 .. m, NEW i \in 1 .. b
               PROVE  rows[j][i] = SumFunctionOnSet(lh, Cell(g, j, i))
    BY <1>8, <1>9, <1>11 DEF Exact
  <2> DEFINE S == Cell(g, j, i)
             x == <<t, k>>
  <2>1. j \in Kinds
    BY <1>1, <1>2 DEF Kinds
  <2>2. IsFiniteSet(S) /\ \A e \in S : lg[e] \in Nat /\ e \in Times \X Kinds
    BY <1>10, <2>1, CellsFinite
  <2>3. x \in S <=> j = k /\ i = n
    BY <1>13
  <2>4. g.series[j][i] = SumFunctionOnSet(lg, S)
    BY <1>1, <1>10 DEF Exact, b
  <2> HIDE DEF S
  <2>5. (x \in S => lh[x] = lg[x] + 1) /\ \A e \in S : e # x => lh[e] = lg[e]
    BY <1>12, <2>2
  <2> HIDE DEF x
  <2>6. SumFunctionOnSet(lh, S) = SumFunctionOnSet(lg, S) + (IF x \in S THEN 1 ELSE 0)
    BY <2>2, <2>5, SumBump
  <2>7. g.series[j][i] \in Nat
    BY <1>1
  <2> QED BY <1>6, <2>3, <2>4, <2>6, <2>7 DEF S
<1>15. Covers(new, lh)
  <2> SUFFICES ASSUME NEW u \in Times, NEW j \in Kinds, lh[<<u, j>>] > 0
               PROVE  /\ j <= m /\ b > 0 /\ u < Edge(g, b + 1)
                      /\ u < g.start => g.start < g.width
    BY <1>8, <1>9, <1>11 DEF Covers
  <2>1. CASE <<u, j>> = <<t, k>>
    <3>1. u = t /\ j = k
      BY <2>1
    <3>2. n + 1 \in Nat \ {0} /\ b + 1 \in Nat \ {0} /\ n + 1 <= b + 1
      <4>1. n \in Nat /\ b \in Nat /\ n <= b
        BY <1>1, <1>2
      <4> QED BY <4>1
    <3>3. Edge(g, n + 1) <= Edge(g, b + 1) /\ Edge(g, n + 1) \in Nat /\ Edge(g, b + 1) \in Nat
      BY <1>1, <3>2, EdgesRise
    <3>4. ClampedTo(g.start, t) < Edge(g, n + 1)
      <4>1. <<t, k>>[1] = t
        OBVIOUS
      <4> QED BY <4>1 DEF Cell
    <3>5. t <= ClampedTo(g.start, t) /\ ClampedTo(g.start, t) \in Nat
      BY <1>1, <1>2 DEF ClampedTo
    <3>6. t < Edge(g, b + 1)
      BY <1>2, <3>3, <3>4, <3>5
    <3> QED BY <1>1, <1>2, <3>1, <3>6
  <2>2. CASE <<u, j>> # <<t, k>>
    <3>1. lg[<<u, j>>] > 0
      BY <1>12, <2>2
    <3> QED BY <1>1, <1>10, <3>1 DEF Covers, b
  <2> QED BY <2>1, <2>2
<1>16. Tight(new, T)
  BY <1>8, <1>10, <1>11 DEF Tight, b
<1>17. Good(new, lh, T, m)
  BY <1>8, <1>10, <1>12, <1>14, <1>15, <1>16 DEF Good
<1> QED BY <1>3, <1>17 DEF lh

-----------------------------------------------------------------------------
(***************************************************************************)
(* Reaching back.                                                          *)
(***************************************************************************)
(* c with so many bins before its first. *)
Prepended(c, n) ==
  Histo(c.start - n * c.width, c.width, c.bins + n,
        [k \in DOMAIN c.series |-> Zeroes(n) \o c.series[k]])

(* Bins are only put before the first when every event has its place: so none
   of them moves. *)
LEMMA PrependKeeps ==
  ASSUME NEW c, NEW lg, NEW T, NEW m, Good(c, lg, T, m), c.bins > 0,
         NEW n \in Nat, n * c.width <= c.start, c.bins + n <= MaxBins
  PROVE  /\ Good(Prepended(c, n), lg, T, m)
         /\ Prepended(c, n).start = c.start - n * c.width
         /\ Prepended(c, n).width = c.width
         /\ Prepended(c, n).bins = c.bins + n
<1> DEFINE b == c.bins
           w == c.width
           s == c.start - n * w
           rows == [k \in DOMAIN c.series |-> Zeroes(n) \o c.series[k]]
           new == Histo(s, w, b + n, rows)
<1>1. /\ c \in Histograms /\ m \in Nat /\ m <= MaxKind
      /\ c.start \in Nat /\ w \in Nat \ {0} /\ MinBin <= w
      /\ b \in Nat /\ b > 0 /\ b + n \in Nat /\ b + n <= MaxBins
      /\ DOMAIN c.series = 1 .. m /\ Len(c.series) = m
      /\ \A k \in 1 .. m : c.series[k] \in Seq(Nat) /\ Len(c.series[k]) = b
  BY ShapedParts DEF Good
<1>2. n * w \in Nat /\ n * w <= c.start /\ s \in Nat /\ s = c.start - n * w
  <2>1. n * w \in Nat
    BY <1>1, TimesMonotone
  <2> QED BY <1>1, <2>1
<1>3. Prepended(c, n) = new
  BY DEF Prepended
<1>4. \A k \in 1 .. m : /\ rows[k] \in Seq(Nat) /\ Len(rows[k]) = b + n
                        /\ \A i \in 1 .. b + n : rows[k][i] = IF i <= n THEN 0 ELSE c.series[k][i - n]
  <2> TAKE k \in 1 .. m
  <2> DEFINE z == Zeroes(n)
             r == c.series[k]
  <2>1. /\ z \in Seq(Nat) /\ Len(z) = n /\ (\A i \in 1 .. n : z[i] = 0)
        /\ r \in Seq(Nat) /\ Len(r) = b
    BY <1>1, ZeroRow
  <2>2. rows[k] = z \o r
    BY <1>1
  <2> HIDE DEF z, rows, b, r
  <2>3. /\ z \o r \in Seq(Nat) /\ Len(z \o r) = n + b
        /\ \A i \in 1 .. n + b : (z \o r)[i] = IF i <= n THEN z[i] ELSE r[i - n]
    BY <2>1, ConcatProperties
  <2>4. \A i \in 1 .. b + n : (z \o r)[i] = IF i <= n THEN 0 ELSE r[i - n]
    <3> TAKE i \in 1 .. b + n
    <3>1. i \in 1 .. n + b /\ (i <= n => i \in 1 .. n)
      BY <1>1
    <3> QED BY <2>1, <2>3, <3>1
  <2> QED BY <1>1, <2>2, <2>3, <2>4 DEF r
<1>5. DOMAIN rows = 1 .. m /\ rows = [k \in 1 .. m |-> rows[k]]
  BY <1>1
<1> HIDE DEF rows, s, b, w
<1>6. /\ Shaped(new, m)
      /\ new.start = s /\ new.width = w /\ new.bins = b + n /\ new.series = rows
  <2>1. \A k \in 1 .. m : rows[k] \in Seq(Nat) /\ Len(rows[k]) = b + n
    BY <1>4
  <2>2. w \in Nat \ {0} /\ MinBin <= w /\ m \in Nat /\ m <= MaxKind /\ b + n \in Nat /\ b + n <= MaxBins
    BY <1>1
  <2>3. s \in Nat
    BY <1>2
  <2> QED BY <1>5, <2>1, <2>2, <2>3, MakesHistogram
<1> HIDE DEF new
<1>7. new \in Histograms /\ Len(new.series) = m
  BY <1>6 DEF Shaped
<1>8. lg \in Logs /\ Covers(c, lg) /\ Exact(c, lg) /\ Tight(c, T)
  BY DEF Good
<1>9. \A i \in Nat : Edge(new, i + n) = Edge(c, i)
  <2> TAKE i \in Nat
  <2>1. Edge(new, i + n) = s + ((i + n) - 1) * w /\ Edge(c, i) = c.start + (i - 1) * w
    BY <1>6 DEF Edge, w
  <2>2. ((i + n) - 1) * w = (i - 1) * w + n * w
    BY <1>1
  <2> DEFINE p == (i - 1) * w
             q == n * w
  <2>3. p \in Int /\ q \in Nat /\ s = c.start - q /\ ((i + n) - 1) * w = p + q
    BY <1>1, <1>2, <2>2
  <2> HIDE DEF p, q
  <2>4. s + (p + q) = c.start + p
    BY <1>1, <2>3
  <2> QED BY <2>1, <2>3, <2>4 DEF p
<1>10. \A t \in Times, k \in Kinds : lg[<<t, k>>] > 0 =>
         /\ t \in Nat /\ k <= m /\ t < Edge(c, b + 1)
         /\ t < c.start => c.start < w
  <2> TAKE t \in Times, k \in Kinds
  <2>1. t \in Nat
    BY HistogramAssumption
  <2> QED BY <1>1, <1>8, <2>1 DEF Covers, b, w
<1>11. n > 0 => w <= c.start
  <2>1. n > 0 => w <= n * w
    <3>1. 1 \in Nat /\ 1 * w = w
      BY <1>1
    <3>2. n > 0 => 1 <= n
      OBVIOUS
    <3> QED BY <1>1, <3>1, <3>2, TimesMonotone
  <2> DEFINE q == n * w
  <2>2. q \in Nat /\ q <= c.start /\ (n > 0 => w <= q)
    BY <1>2, <2>1
  <2>3. w \in Nat /\ c.start \in Nat
    BY <1>1
  <2> HIDE DEF q
  <2> QED BY <2>2, <2>3
<1>12. \A t \in Times, k \in Kinds : lg[<<t, k>>] > 0 =>
         /\ ClampedTo(s, t) = ClampedTo(c.start, t)
         /\ n > 0 => t >= c.start /\ ClampedTo(s, t) = t
  <2> SUFFICES ASSUME NEW t \in Times, NEW k \in Kinds, lg[<<t, k>>] > 0
               PROVE  /\ ClampedTo(s, t) = ClampedTo(c.start, t)
                      /\ n > 0 => t >= c.start /\ ClampedTo(s, t) = t
    OBVIOUS
  <2>1. t \in Nat /\ (t < c.start => c.start < w)
    BY <1>10
  <2>2. CASE n = 0
    <3>1. s = c.start
      BY <1>1, <1>2, <2>2
    <3> QED BY <2>2, <3>1
  <2>3. CASE n > 0
    <3>1. w <= c.start /\ s <= c.start
      BY <1>1, <1>2, <1>11, <2>3
    <3>2. t >= c.start
      BY <1>1, <2>1, <3>1
    <3> QED BY <1>1, <1>2, <2>1, <3>1, <3>2 DEF ClampedTo
  <2> QED BY <2>2, <2>3
<1>13. Exact(new, lg)
  <2> SUFFICES ASSUME NEW k \in 1 .. m, NEW i \in 1 .. b + n
               PROVE  rows[k][i] = SumFunctionOnSet(lg, Cell(new, k, i))
    BY <1>6, <1>7 DEF Exact
  <2>1. k \in Kinds /\ i \in Nat \ {0}
    BY <1>1, HistogramAssumption DEF Kinds
  <2>2. /\ IsFiniteSet(Cell(new, k, i))
        /\ \A e \in Cell(new, k, i) : lg[e] \in Nat /\ e \in Times \X Kinds
    BY <1>8, <2>1, CellsFinite
  <2>3. CASE i <= n
    <3>1. \A e \in Cell(new, k, i) : lg[e] = 0
      <4> SUFFICES ASSUME NEW e \in Cell(new, k, i), lg[e] # 0 PROVE FALSE
        OBVIOUS
      <4>1. PICK t \in Times : e = <<t, k>>
        BY DEF Cell
      <4>2. lg[<<t, k>>] > 0
        BY <2>2, <4>1
      <4>3. t \in Nat /\ t >= c.start /\ ClampedTo(s, t) = t
        BY <1>10, <1>12, <2>1, <2>3, <4>2
      <4>4. t < Edge(new, i + 1)
        BY <1>6, <4>1, <4>3 DEF Cell
      <4>5. i + 1 \in Nat \ {0} /\ n + 1 \in Nat \ {0} /\ i + 1 <= n + 1
        BY <2>1, <2>3
      <4>6. Edge(new, i + 1) <= Edge(new, n + 1) /\ Edge(new, i + 1) \in Nat /\ Edge(new, n + 1) \in Nat
        BY <1>7, <4>5, EdgesRise
      <4>7. Edge(new, n + 1) = c.start
        <5>1. Edge(new, 1 + n) = Edge(c, 1)
          BY <1>9
        <5>2. Edge(c, 1) = c.start
          BY <1>1, EdgesRise
        <5>3. 1 + n = n + 1
          OBVIOUS
        <5> QED BY <5>1, <5>2, <5>3
      <4> QED BY <1>1, <4>3, <4>4, <4>6, <4>7
    <3>2. SumFunctionOnSet(lg, Cell(new, k, i)) = 0
      BY <2>2, <3>1, SumZero
    <3> QED BY <1>4, <2>3, <3>2
  <2>4. CASE ~(i <= n)
    <3> DEFINE j == i - n
    <3>1. j \in 1 .. b /\ j \in Nat \ {0} /\ i = j + n /\ i + 1 = (j + 1) + n /\ j + 1 \in Nat
      BY <1>1, <2>1, <2>4
    <3>2. rows[k][i] = c.series[k][j]
      BY <1>4, <2>4
    <3> HIDE DEF j
    <3>3. Edge(new, i) = Edge(c, j) /\ Edge(new, i + 1) = Edge(c, j + 1)
      BY <1>9, <3>1
    <3>4. c.series[k][j] = SumFunctionOnSet(lg, Cell(c, k, j))
      BY <1>1, <1>8, <3>1 DEF Exact, b
    <3>5. /\ IsFiniteSet(Cell(c, k, j))
          /\ \A e \in Cell(c, k, j) : lg[e] \in Nat /\ e \in Times \X Kinds
      BY <1>8, <2>1, CellsFinite
    <3>6. \A e \in Times \X {k} : lg[e] # 0 => (e \in Cell(new, k, i) <=> e \in Cell(c, k, j))
      <4> SUFFICES ASSUME NEW e \in Times \X {k}, lg[e] # 0
                   PROVE  e \in Cell(new, k, i) <=> e \in Cell(c, k, j)
        OBVIOUS
      <4>1. PICK t \in Times : e = <<t, k>>
        OBVIOUS
      <4>2. lg[<<t, k>>] > 0
        BY <1>8, <2>1, <4>1 DEF Logs
      <4>3. ClampedTo(s, t) = ClampedTo(c.start, t)
        BY <1>12, <2>1, <4>2
      <4>4. e[1] = t
        BY <4>1
      <4> QED BY <1>6, <3>3, <4>3, <4>4 DEF Cell
    <3>7. Cell(new, k, i) \subseteq Times \X {k} /\ Cell(c, k, j) \subseteq Times \X {k}
      BY DEF Cell
    <3> DEFINE S == Cell(new, k, i)
               U == Cell(c, k, j)
    <3>8. /\ \A e \in S \cup U : lg[e] \in Nat
          /\ \A e \in (S \ U) \cup (U \ S) : lg[e] = 0
      BY <2>2, <3>5, <3>6, <3>7
    <3>9. SumFunctionOnSet(lg, S) = SumFunctionOnSet(lg, U)
      <4>1. IsFiniteSet(S) /\ IsFiniteSet(U)
        BY <2>2, <3>5
      <4> HIDE DEF S, U
      <4> QED BY <3>8, <4>1, SumSupport
    <3> QED BY <3>2, <3>4, <3>9
  <2> QED BY <2>3, <2>4
<1>14. Edge(new, (b + n) + 1) = Edge(c, b + 1) /\ Edge(new, b + n) = Edge(c, b)
  <2>1. (b + n) + 1 = (b + 1) + n /\ b + 1 \in Nat
    BY <1>1
  <2> QED BY <1>1, <1>9, <2>1
<1>15. Covers(new, lg)
  <2> SUFFICES ASSUME NEW t \in Times, NEW k \in Kinds, lg[<<t, k>>] > 0
               PROVE  /\ k <= m /\ b + n > 0 /\ t < Edge(c, b + 1)
                      /\ t < s => s < w
    BY <1>6, <1>7, <1>14 DEF Covers
  <2>1. /\ t \in Nat /\ k <= m /\ t < Edge(c, b + 1)
        /\ t < c.start => c.start < w
    BY <1>10
  <2>2. s <= c.start
    BY <1>1, <1>2
  <2> QED BY <1>1, <1>2, <2>1, <2>2
<1>16. Tight(new, T)
  BY <1>1, <1>6, <1>8, <1>14 DEF Tight, b
<1>17. Good(new, lg, T, m)
  BY <1>6, <1>8, <1>13, <1>15, <1>16 DEF Good
<1> QED BY <1>3, <1>6, <1>17 DEF s, b, w

-----------------------------------------------------------------------------
(***************************************************************************)
(* Coarsening until it is enough.                                          *)
(***************************************************************************)
(* f is g coarsened up to m times, in the way Coarsened computes it. *)
Coarsens(g, m, f) == f = [n \in 0 .. m |-> IF n = 0 THEN g ELSE coarsen(f[n - 1])]
Doubles(m, f) == f = [n \in 0 .. m |-> IF n = 0 THEN MinBin ELSE 2 * f[n - 1]]

LEMMA CoarsensExist == ASSUME NEW g, NEW m \in Nat PROVE \E f : Coarsens(g, m, f)
<1> DEFINE T == {k \in 0 .. m : \E f : Coarsens(g, k, f)}
<1>1. 0 \in T
  <2>1. Coarsens(g, 0, [n \in 0 .. 0 |-> g])
    BY DEF Coarsens
  <2>2. 0 \in 0 .. m
    OBVIOUS
  <2> QED BY <2>1, <2>2, Zenon
<1>2. \A k \in 0 .. m : k \in T /\ k < m => k + 1 \in T
  <2> SUFFICES ASSUME NEW k \in 0 .. m, k \in T, k < m PROVE k + 1 \in T
    OBVIOUS
  <2>1. PICK f : Coarsens(g, k, f)
    OBVIOUS
  <2> DEFINE e == [n \in 0 .. k + 1 |-> IF n = 0 THEN g ELSE coarsen(f[n - 1])]
  <2>2. \A n \in 0 .. k : e[n] = f[n]
    <3> TAKE n \in 0 .. k
    <3>1. f[n] = IF n = 0 THEN g ELSE coarsen(f[n - 1])
      BY <2>1 DEF Coarsens
    <3> QED BY <3>1
  <2>3. \A n \in 0 .. k + 1 : n # 0 => n - 1 \in 0 .. k
    OBVIOUS
  <2>4. \A n \in 0 .. k + 1 : e[n] = IF n = 0 THEN g ELSE coarsen(e[n - 1])
    <3> TAKE n \in 0 .. k + 1
    <3>1. e[n] = IF n = 0 THEN g ELSE coarsen(f[n - 1])
      OBVIOUS
    <3> HIDE DEF e
    <3> QED BY <2>2, <2>3, <3>1
  <2>5. e = [n \in 0 .. k + 1 |-> e[n]]
    OBVIOUS
  <2> HIDE DEF e
  <2>6. Coarsens(g, k + 1, e)
    BY <2>4, <2>5 DEF Coarsens
  <2>7. k + 1 \in 0 .. m
    OBVIOUS
  <2> QED BY <2>6, <2>7, Zenon
<1>3. m \in T
  <2> HIDE DEF T
  <2>1. 0 .. m \subseteq T
    BY <1>1, <1>2, CountingUp
  <2> QED BY <2>1
<1> QED BY <1>3

LEMMA DoublesExist == ASSUME NEW m \in Nat PROVE \E f : Doubles(m, f)
<1> DEFINE T == {k \in 0 .. m : \E f : Doubles(k, f)}
<1>1. 0 \in T
  <2>1. Doubles(0, [n \in 0 .. 0 |-> MinBin])
    BY DEF Doubles
  <2>2. 0 \in 0 .. m
    OBVIOUS
  <2> QED BY <2>1, <2>2, Zenon
<1>2. \A k \in 0 .. m : k \in T /\ k < m => k + 1 \in T
  <2> SUFFICES ASSUME NEW k \in 0 .. m, k \in T, k < m PROVE k + 1 \in T
    OBVIOUS
  <2>1. PICK f : Doubles(k, f)
    OBVIOUS
  <2> DEFINE e == [n \in 0 .. k + 1 |-> IF n = 0 THEN MinBin ELSE 2 * f[n - 1]]
  <2>2. \A n \in 0 .. k : e[n] = f[n]
    <3> TAKE n \in 0 .. k
    <3>1. f[n] = IF n = 0 THEN MinBin ELSE 2 * f[n - 1]
      BY <2>1 DEF Doubles
    <3> QED BY <3>1
  <2>3. \A n \in 0 .. k + 1 : n # 0 => n - 1 \in 0 .. k
    OBVIOUS
  <2>4. \A n \in 0 .. k + 1 : e[n] = IF n = 0 THEN MinBin ELSE 2 * e[n - 1]
    <3> TAKE n \in 0 .. k + 1
    <3>1. e[n] = IF n = 0 THEN MinBin ELSE 2 * f[n - 1]
      OBVIOUS
    <3> HIDE DEF e
    <3> QED BY <2>2, <2>3, <3>1
  <2>5. e = [n \in 0 .. k + 1 |-> e[n]]
    OBVIOUS
  <2> HIDE DEF e
  <2>6. Doubles(k + 1, e)
    BY <2>4, <2>5 DEF Doubles
  <2>7. k + 1 \in 0 .. m
    OBVIOUS
  <2> QED BY <2>6, <2>7, Zenon
<1>3. m \in T
  <2> HIDE DEF T
  <2>1. 0 .. m \subseteq T
    BY <1>1, <1>2, CountingUp
  <2> QED BY <2>1
<1> QED BY <1>3

(* What the two functions hold. *)
LEMMA CoarsenedSteps ==
  ASSUME NEW g
  PROVE  \A n \in 0 .. Halvings :
           /\ n = 0 => Coarsened(g)[n] = g /\ Doubled[n] = MinBin
           /\ n > 0 => /\ Coarsened(g)[n] = coarsen(Coarsened(g)[n - 1])
                       /\ Doubled[n] = 2 * Doubled[n - 1]
<1>1. Halvings \in Nat
  BY HistogramAssumption
<1>2. Coarsens(g, Halvings, Coarsened(g))
  <2> DEFINE c == CHOOSE f : Coarsens(g, Halvings, f)
  <2>1. Coarsens(g, Halvings, c)
    BY <1>1, CoarsensExist
  <2>2. Coarsened(g) = c
    BY DEF Coarsened, Coarsens
  <2> QED BY <2>1, <2>2
<1>3. Doubles(Halvings, Doubled)
  <2> DEFINE c == CHOOSE f : Doubles(Halvings, f)
  <2>1. Doubles(Halvings, c)
    BY <1>1, DoublesExist
  <2>2. Doubled = c
    BY DEF Doubled, Doubles
  <2> QED BY <2>1, <2>2
<1>4. \A n \in 0 .. Halvings : Coarsened(g)[n] = IF n = 0 THEN g ELSE coarsen(Coarsened(g)[n - 1])
  BY <1>2 DEF Coarsens
<1>5. \A n \in 0 .. Halvings : Doubled[n] = IF n = 0 THEN MinBin ELSE 2 * Doubled[n - 1]
  BY <1>3 DEF Doubles
<1> QED BY <1>4, <1>5

(* However often it is coarsened, it is a histogram of the same events, and its
   bins are so much wider. *)
Widened(g, c, n, lg, T, m) ==
  /\ Good(c, lg, T, m)
  /\ c.start = g.start /\ (g.bins > 0 => c.bins > 0)
  /\ Doubled[n] \in Nat /\ Doubled[n] <= c.width

LEMMA CoarsenedKeeps ==
  ASSUME NEW g, NEW lg, NEW T, NEW m, Good(g, lg, T, m)
  PROVE  \A n \in 0 .. Halvings : Widened(g, Coarsened(g)[n], n, lg, T, m)
<1> DEFINE U == {n \in 0 .. Halvings : Widened(g, Coarsened(g)[n], n, lg, T, m)}
<1>1. Halvings \in Nat /\ MinBin \in Nat
  BY HistogramAssumption
<1>2. 0 \in U
  <2>1. 0 \in 0 .. Halvings
    BY <1>1
  <2>2. Coarsened(g)[0] = g /\ Doubled[0] = MinBin
    BY <2>1, CoarsenedSteps
  <2>3. MinBin <= g.width
    BY ShapedParts DEF Good
  <2>4. Widened(g, g, 0, lg, T, m)
    BY <1>1, <2>2, <2>3 DEF Widened
  <2> QED BY <2>1, <2>2, <2>4
<1>3. \A n \in 0 .. Halvings : n \in U /\ n < Halvings => n + 1 \in U
  <2> SUFFICES ASSUME NEW n \in 0 .. Halvings, n \in U, n < Halvings PROVE n + 1 \in U
    OBVIOUS
  <2> DEFINE k == n + 1
             c == Coarsened(g)[n]
  <2>1. k \in 0 .. Halvings /\ k > 0 /\ k - 1 = n
    BY <1>1
  <2>2. Coarsened(g)[k] = coarsen(c) /\ Doubled[k] = 2 * Doubled[n]
    <3> HIDE DEF k
    <3> QED BY <2>1, CoarsenedSteps
  <2>3. /\ Good(c, lg, T, m)
        /\ c.start = g.start /\ (g.bins > 0 => c.bins > 0)
        /\ Doubled[n] \in Nat /\ Doubled[n] <= c.width
    BY DEF Widened
  <2> HIDE DEF c, k
  <2>4. c.bins \in Nat /\ c.width \in Nat \ {0}
    BY <2>3, ShapedParts DEF Good
  <2>5. /\ Good(coarsen(c), lg, T, m)
        /\ coarsen(c).start = c.start /\ coarsen(c).width = 2 * c.width
        /\ coarsen(c).bins = CeilDiv(c.bins, 2)
    BY <2>3, CoarsenKeeps
  <2>6. c.bins > 0 => CeilDiv(c.bins, 2) > 0
    BY <2>4, HalfUp
  <2>7. Widened(g, coarsen(c), k, lg, T, m)
    BY <2>2, <2>3, <2>4, <2>5, <2>6 DEF Widened
  <2> QED BY <2>1, <2>2, <2>7 DEF k
<1>4. 0 .. Halvings \subseteq U
  <2> HIDE DEF U
  <2> QED BY <1>1, <1>2, <1>3, CountingUp
<1> QED BY <1>4

(* Coarsened as often as the times may need, it has one bin that starts and ends
   around every one of them. *)
LEMMA OneBinInTheEnd ==
  ASSUME NEW g, NEW lg, NEW T, NEW m, Good(g, lg, T, m), g.bins > 0
  PROVE  LET c == Coarsened(g)[Halvings] IN
           /\ c.bins = 1 /\ c.start < c.width
           /\ \A t \in Times : t < c.width
<1> DEFINE c == Coarsened(g)[Halvings]
<1>1. Widened(g, c, Halvings, lg, T, m)
  <2>1. Halvings \in 0 .. Halvings
    BY HistogramAssumption
  <2> QED BY <2>1, CoarsenedKeeps
<1> HIDE DEF c
<1>2. c \in Histograms /\ c.start \in Nat /\ c.width \in Nat \ {0} /\ c.bins \in Nat /\ c.bins > 0
      /\ Doubled[Halvings] \in Nat /\ Doubled[Halvings] <= c.width
  BY <1>1, ShapedParts DEF Widened, Good
<1>3. \A t \in Times : t \in Nat /\ t < c.width
  BY <1>2, HistogramAssumption
<1>4. PICK u \in T : Edge(c, c.bins) <= u
  BY <1>1, <1>2 DEF Widened, Good, Tight
<1>5. u \in Nat /\ u < c.width
  BY <1>1, <1>3 DEF Widened, Good
<1>6. c.start <= Edge(c, c.bins) /\ Edge(c, c.bins) \in Nat
  BY <1>2, EdgesRise
<1>7. c.bins = 1
  <2> SUFFICES ASSUME c.bins # 1 PROVE FALSE
    OBVIOUS
  <2>1. 2 <= c.bins /\ 1 \in Nat \ {0} /\ 2 \in Nat \ {0} /\ c.bins \in Nat \ {0}
    BY <1>2
  <2>2. Edge(c, 2) <= Edge(c, c.bins) /\ Edge(c, 2) \in Nat
    BY <1>2, <2>1, EdgesRise
  <2>3. Edge(c, 2) = c.start + c.width
    <3>1. (2 - 1) * c.width = c.width
      BY <1>2
    <3> QED BY <3>1 DEF Edge
  <2> QED BY <1>2, <1>4, <1>5, <1>6, <2>2, <2>3
<1> QED BY <1>2, <1>3, <1>4, <1>5, <1>6, <1>7 DEF c

(* The least of some numbers is one of them. *)
LEMMA MinIsOne ==
  ASSUME NEW S, S \subseteq Nat, S # {}
  PROVE  Min(S) \in S
<1>1. \E x \in S : \A y \in S : x <= y
  BY LeastNat
<1> QED BY <1>1 DEF Min

(* Coarsened just enough for t, it is a histogram of the same events. *)
LEMMA ReachingBackKeeps ==
  ASSUME NEW g, NEW lg, NEW T, NEW m, Good(g, lg, T, m), g.bins > 0,
         NEW t \in Times, t < g.start
  PROVE  /\ Good(ReachingBack(g, t), lg, T, m)
         /\ ReachingBack(g, t).start = g.start /\ ReachingBack(g, t).bins > 0
         /\ ReachingBack(g, t).bins + Wanted(ReachingBack(g, t), t) <= MaxBins
<1> DEFINE Enough(c) == c.bins + Wanted(c, t) <= MaxBins
           S == {n \in 0 .. Halvings : Enough(Coarsened(g)[n])}
           e == Coarsened(g)[Halvings]
<1>1. Halvings \in Nat /\ Halvings \in 0 .. Halvings /\ t \in Nat /\ MaxBins >= 2 /\ MaxBins \in Nat
  BY HistogramAssumption
<1>2. ReachingBack(g, t) = Coarsened(g)[Min(S)]
  BY DEF ReachingBack
<1>3. Widened(g, e, Halvings, lg, T, m)
  BY <1>1, CoarsenedKeeps
<1>4. e.bins = 1 /\ e.start < e.width
  BY OneBinInTheEnd
<1> HIDE DEF e
<1>5. e.start = g.start /\ e.width \in Nat \ {0} /\ e.start \in Nat
  BY <1>3, ShapedParts DEF Widened, Good
<1>6. Wanted(e, t) = 1
  <2>1. e.start - t \in Nat /\ e.start - t > 0 /\ e.start - t <= e.width
    BY <1>1, <1>4, <1>5
  <2> DEFINE a == e.start - t
  <2> HIDE DEF a
  <2>2. CeilDiv(a, e.width) = 1
    BY <1>5, <2>1, CeilBounds DEF a
  <2> QED BY <2>2 DEF Wanted, a
<1>7. Enough(e)
  BY <1>1, <1>4, <1>6
<1>8. Halvings \in S
  BY <1>1, <1>7 DEF e
<1>9. S \subseteq Nat /\ S # {}
  BY <1>1, <1>8
<1>10. Min(S) \in S
  <2> HIDE DEF S
  <2> QED BY <1>9, MinIsOne
<1>11. Min(S) \in 0 .. Halvings /\ Enough(Coarsened(g)[Min(S)])
  BY <1>10
<1> HIDE DEF S
<1>12. Widened(g, Coarsened(g)[Min(S)], Min(S), lg, T, m)
  BY <1>11, CoarsenedKeeps
<1> QED BY <1>2, <1>11, <1>12 DEF Widened

LEMMA ReachingForwardKeeps ==
  ASSUME NEW g, NEW lg, NEW T, NEW m, Good(g, lg, T, m), g.bins > 0,
         NEW t \in Times, t >= g.start
  PROVE  /\ Good(ReachingForward(g, t), lg, T, m)
         /\ ReachingForward(g, t).start = g.start /\ ReachingForward(g, t).bins > 0
         /\ IndexOf(ReachingForward(g, t), t) <= MaxBins
<1> DEFINE Enough(c) == IndexOf(c, t) <= MaxBins
           S == {n \in 0 .. Halvings : Enough(Coarsened(g)[n])}
           e == Coarsened(g)[Halvings]
<1>1. Halvings \in Nat /\ Halvings \in 0 .. Halvings /\ t \in Nat /\ MaxBins >= 2 /\ MaxBins \in Nat
  BY HistogramAssumption
<1>2. ReachingForward(g, t) = Coarsened(g)[Min(S)]
  BY DEF ReachingForward
<1>3. Widened(g, e, Halvings, lg, T, m)
  BY <1>1, CoarsenedKeeps
<1>4. t < e.width
  BY OneBinInTheEnd
<1> HIDE DEF e
<1>5. e \in Histograms /\ e.start = g.start /\ e.width \in Nat \ {0} /\ e.start \in Nat
  BY <1>3, ShapedParts DEF Widened, Good
<1>6. IndexOf(e, t) = 1
  <2> DEFINE i == IndexOf(e, t)
  <2>1. i \in Nat \ {0} /\ Edge(e, i) <= t
    BY <1>1, <1>5, InItsBin
  <2>2. Edge(e, i) = e.start + (i - 1) * e.width
    BY DEF Edge
  <2> HIDE DEF i
  <2>3. i # 1 => e.width <= (i - 1) * e.width
    <3>1. i # 1 => i - 1 \in Nat /\ 1 <= i - 1
      BY <2>1
    <3>2. 1 * e.width = e.width
      BY <1>5
    <3> QED BY <1>5, <3>1, <3>2, TimesMonotone
  <2>4. (i - 1) * e.width \in Nat
    BY <1>5, <2>1
  <2> QED BY <1>1, <1>4, <1>5, <2>1, <2>2, <2>3, <2>4 DEF i
<1>7. Enough(e)
  BY <1>1, <1>6
<1>8. Halvings \in S
  BY <1>1, <1>7 DEF e
<1>9. S \subseteq Nat /\ S # {}
  BY <1>1, <1>8
<1>10. Min(S) \in S
  <2> HIDE DEF S
  <2> QED BY <1>9, MinIsOne
<1>11. Min(S) \in 0 .. Halvings /\ Enough(Coarsened(g)[Min(S)])
  BY <1>10
<1> HIDE DEF S
<1>12. Widened(g, Coarsened(g)[Min(S)], Min(S), lg, T, m)
  BY <1>11, CoarsenedKeeps
<1> QED BY <1>2, <1>11, <1>12 DEF Widened

(* The range reaches back to t, or as far as it can. *)
LEMMA BackwardsKeeps ==
  ASSUME NEW g, NEW lg, NEW T, NEW m, Good(g, lg, T, m), g.bins > 0,
         NEW t \in Times, t < g.start
  PROVE  /\ Good(extend_backwards(g, t), lg, T, m)
         /\ extend_backwards(g, t).bins > 0
         /\ t < extend_backwards(g, t).start =>
              extend_backwards(g, t).start < extend_backwards(g, t).width
<1> DEFINE c == ReachingBack(g, t)
           most == c.start \div c.width
           want == Wanted(c, t)
           extra == IF want < most THEN want ELSE most
<1>1. Good(c, lg, T, m) /\ c.start = g.start /\ c.bins > 0 /\ c.bins + want <= MaxBins
  BY ReachingBackKeeps
<1>2. extend_backwards(g, t) = Prepended(c, extra)
  BY DEF extend_backwards, Prepended
<1> HIDE DEF c
<1>3. c.start \in Nat /\ c.width \in Nat \ {0} /\ c.bins \in Nat /\ t \in Nat /\ t < c.start /\ MaxBins \in Nat
  BY <1>1, HistogramAssumption, ShapedParts DEF Good
<1>4. most \in Nat /\ most * c.width <= c.start /\ c.start < most * c.width + c.width
  BY <1>3, DivBounds
<1>5. want \in Nat /\ c.start - t <= want * c.width
  <2> DEFINE a == c.start - t
  <2>1. a \in Nat
    BY <1>3
  <2> HIDE DEF a
  <2>2. CeilDiv(a, c.width) \in Nat /\ a <= CeilDiv(a, c.width) * c.width
    BY <1>3, <2>1, CeilBounds
  <2> QED BY <2>2 DEF Wanted, a
<1> DEFINE back == extra * c.width
<1>6. extra \in Nat /\ extra <= want /\ extra <= most /\ (extra = want \/ extra = most)
  BY <1>4, <1>5
<1> HIDE DEF most, want
<1>7. back \in Nat /\ back <= c.start /\ (c.start - t <= back \/ c.start < back + c.width)
  <2> HIDE DEF extra
  <2>1. back \in Nat /\ most * c.width \in Nat /\ back <= most * c.width
    BY <1>3, <1>4, <1>6, TimesMonotone
  <2>2. extra = want => c.start - t <= back
    BY <1>5
  <2>3. extra = most => c.start < back + c.width
    BY <1>4
  <2> QED BY <1>3, <1>4, <1>6, <2>1, <2>2, <2>3
<1>8. c.bins + extra <= MaxBins
  <2> HIDE DEF extra
  <2> QED BY <1>1, <1>3, <1>5, <1>6
<1>9. /\ Good(Prepended(c, extra), lg, T, m)
      /\ Prepended(c, extra).start = c.start - back
      /\ Prepended(c, extra).width = c.width
      /\ Prepended(c, extra).bins = c.bins + extra
  <2> HIDE DEF extra
  <2> QED BY <1>1, <1>6, <1>7, <1>8, PrependKeeps
<1>10. t < c.start - back => c.start - back < c.width
  <2> HIDE DEF back
  <2> QED BY <1>3, <1>7
<1>11. c.bins + extra > 0
  <2> HIDE DEF extra
  <2> QED BY <1>1, <1>3, <1>6
<1> QED BY <1>2, <1>9, <1>10, <1>11

-----------------------------------------------------------------------------
(***************************************************************************)
(* Adding an event.                                                        *)
(***************************************************************************)
(* The first event puts the range where it is. *)
LEMMA AnchoredKeeps ==
  ASSUME NEW g, NEW lg, NEW T, NEW m, Good(g, lg, T, m), NEW t \in Times
  PROVE  Good(Anchored(g, t), lg, T \cup {t}, m) /\ Anchored(g, t).bins > 0
<1> DEFINE s == t - (t % g.width)
           c == [g EXCEPT !.start = s]
<1>1. /\ g \in Histograms /\ g.width \in Nat \ {0} /\ g.bins \in Nat /\ t \in Nat
      /\ MaxBins \in Nat /\ MaxBins >= 2
  BY HistogramAssumption, ShapedParts DEF Good
<1>2. CASE g.bins # 0
  <2>1. Anchored(g, t) = g
    BY <1>2 DEF Anchored
  <2> QED BY <1>1, <1>2, <2>1, TightGrows
<1>3. CASE g.bins = 0
  <2>1. Anchored(g, t) = set_bins(c, 1)
    BY <1>3 DEF Anchored
  <2>2. s \in Nat /\ s <= t /\ t - s < g.width
    <3> DEFINE w == g.width
    <3>1. w \in Nat \ {0}
      BY <1>1
    <3> HIDE DEF w
    <3>2. t % w \in Nat /\ t % w < w /\ t % w <= t
      BY <1>1, <3>1
    <3>3. t - (t % w) \in Nat /\ t - (t % w) <= t /\ t - (t - (t % w)) < w
      BY <1>1, <3>1, <3>2
    <3> QED BY <3>3 DEF w
  <2> HIDE DEF s
  <2>3. /\ c \in Histograms
        /\ c.start = s /\ c.width = g.width /\ c.bins = 0 /\ c.series = g.series
    BY <1>1, <1>3, <2>2 DEF Histograms
  <2> HIDE DEF c
  <2>4. Good(c, lg, T, m)
    <3>1. Shaped(c, m)
      BY <1>3, <2>3 DEF Good, Shaped
    <3>2. Exact(c, lg) /\ Tight(c, T)
      BY <2>3 DEF Exact, Tight
    <3>3. Covers(c, lg)
      BY <1>3 DEF Good, Covers
    <3> QED BY <3>1, <3>2, <3>3 DEF Good
  <2>5. t >= c.start /\ c.start \in Nat
    BY <1>1, <2>2, <2>3
  <2>6. IndexOf(c, t) = 1
    <3> DEFINE a == t - s
               w == g.width
    <3>1. IndexOf(c, t) = a \div w + 1
      BY <2>3 DEF IndexOf
    <3>2. a \in Nat /\ w \in Nat \ {0} /\ a < w
      BY <1>1, <2>2
    <3> HIDE DEF a, w
    <3>3. a \div w = 0
      BY <3>2
    <3> QED BY <3>1, <3>3
  <2>7. c.bins < 1 /\ 1 <= MaxBins
    BY <1>1, <2>3
  <2>8. Good(set_bins(c, 1), lg, T \cup {t}, m) /\ set_bins(c, 1).bins = 1
    BY <2>4, <2>5, <2>6, <2>7, GrownKeeps
  <2> QED BY <2>1, <2>8
<1> QED BY <1>2, <1>3

(* From the start of the range on, every event finds its bin. *)
LEMMA ForwardKeeps ==
  ASSUME NEW g, NEW lg, NEW T, NEW m, Good(g, lg, T, m), g.bins > 0,
         NEW t \in Times, t >= g.start, NEW k \in Kinds, k <= m
  PROVE  Good(Forward(g, t, k), [lg EXCEPT ![<<t, k>>] = @ + 1], T \cup {t}, m)
<1> DEFINE c == ReachingForward(g, t)
           n == IndexOf(c, t)
           e == IF n <= c.bins THEN c ELSE set_bins(c, n)
<1>1. Good(c, lg, T, m) /\ c.start = g.start /\ c.bins > 0 /\ n <= MaxBins
  BY ReachingForwardKeeps
<1>2. Forward(g, t, k) = Counted(e, k, n)
  BY DEF Forward
<1> HIDE DEF c
<1>3. c \in Histograms /\ c.start \in Nat /\ c.width \in Nat \ {0} /\ c.bins \in Nat
      /\ t \in Nat /\ t >= c.start
  BY <1>1, HistogramAssumption, ShapedParts DEF Good
<1>4. n \in Nat \ {0} /\ Edge(c, n) <= t /\ t < Edge(c, n + 1)
  BY <1>3, InItsBin
<1>5. Good(e, lg, T \cup {t}, m) /\ e.start = c.start /\ e.width = c.width /\ n \in 1 .. e.bins
  <2> HIDE DEF n
  <2>1. CASE n <= c.bins
    <3>1. e = c /\ n \in 1 .. c.bins
      BY <1>3, <1>4, <2>1
    <3> QED BY <1>1, <3>1, TightGrows
  <2>2. CASE ~(n <= c.bins)
    <3>1. e = set_bins(c, n) /\ c.bins < n
      BY <1>3, <1>4, <2>2
    <3>2. /\ Good(set_bins(c, n), lg, T \cup {t}, m)
          /\ set_bins(c, n).start = c.start /\ set_bins(c, n).width = c.width
          /\ set_bins(c, n).bins = n
      BY <1>1, <1>3, <3>1, GrownKeeps DEF n
    <3> QED BY <1>4, <3>1, <3>2
  <2> QED BY <2>1, <2>2
<1> HIDE DEF e, n
<1>6. Edge(e, n) = Edge(c, n) /\ Edge(e, n + 1) = Edge(c, n + 1)
  BY <1>5, SameEdgesSameCells
<1>7. <<t, k>> \in Cell(e, k, n) /\ ~(t < e.start)
  <2>1. ClampedTo(e.start, t) = t /\ ~(t < e.start)
    BY <1>3, <1>5 DEF ClampedTo
  <2>2. <<t, k>>[1] = t /\ <<t, k>> \in Times \X {k}
    OBVIOUS
  <2> QED BY <1>4, <1>6, <2>1, <2>2 DEF Cell
<1>8. Good(Counted(e, k, n), [lg EXCEPT ![<<t, k>>] = @ + 1], T \cup {t}, m)
  BY <1>5, <1>7, CountKeeps
<1> QED BY <1>2, <1>8

(* Whatever comes, it is counted in its bin. *)
LEMMA AddKeeps ==
  ASSUME NEW g, NEW lg, NEW T, NEW m, Good(g, lg, T, m), NEW t \in Times, NEW k \in Kinds
  PROVE  \E n \in 0 .. MaxKind :
           Good(add(g, t, k), [lg EXCEPT ![<<t, k>>] = @ + 1], T \cup {t}, n)
<1> DEFINE known == Anchored(ensure_kind(g, k), t)
           reaching == IF t < known.start THEN extend_backwards(known, t) ELSE known
           lh == [lg EXCEPT ![<<t, k>>] = @ + 1]
<1>1. PICK n \in 0 .. MaxKind : k <= n /\ Good(ensure_kind(g, k), lg, T, n)
  BY KindKeeps
<1>2. Good(known, lg, T \cup {t}, n) /\ known.bins > 0
  BY <1>1, AnchoredKeeps
<1>3. add(g, t, k) = IF t < reaching.start THEN Counted(reaching, k, 1) ELSE Forward(reaching, t, k)
  BY DEF add
<1> HIDE DEF known
<1>4. /\ Good(reaching, lg, T \cup {t}, n) /\ reaching.bins > 0
      /\ t < reaching.start => reaching.start < reaching.width
  <2>1. CASE t < known.start
    BY <1>2, <2>1, BackwardsKeeps
  <2>2. CASE ~(t < known.start)
    BY <1>2, <2>2
  <2> QED BY <2>1, <2>2
<1> HIDE DEF reaching
<1>5. /\ reaching \in Histograms /\ reaching.start \in Nat /\ reaching.width \in Nat \ {0}
      /\ reaching.bins \in Nat /\ t \in Nat
  BY <1>4, HistogramAssumption, ShapedParts DEF Good
<1>6. CASE t < reaching.start
  <2>1. 1 \in 1 .. reaching.bins
    BY <1>4, <1>5
  <2>2. /\ Edge(reaching, 1) = reaching.start /\ Edge(reaching, 1 + 1) = reaching.start + reaching.width
    <3>1. 1 \in Nat \ {0}
      OBVIOUS
    <3> QED BY <1>5, <3>1, EdgesRise
  <2>3. ClampedTo(reaching.start, t) = reaching.start
    BY <1>6 DEF ClampedTo
  <2>4. <<t, k>>[1] = t /\ <<t, k>> \in Times \X {k}
    OBVIOUS
  <2>5. <<t, k>> \in Cell(reaching, k, 1)
    BY <1>5, <2>2, <2>3, <2>4 DEF Cell
  <2>6. Good(Counted(reaching, k, 1), lh, T \cup {t}, n)
    BY <1>1, <1>4, <1>6, <2>1, <2>5, CountKeeps
  <2> QED BY <1>1, <1>3, <1>6, <2>6
<1>7. CASE ~(t < reaching.start)
  <2>1. Good(Forward(reaching, t, k), lh, (T \cup {t}) \cup {t}, n)
    BY <1>1, <1>4, <1>5, <1>7, ForwardKeeps
  <2>2. (T \cup {t}) \cup {t} = T \cup {t}
    OBVIOUS
  <2> QED BY <1>1, <1>3, <1>7, <2>1, <2>2
<1> QED BY <1>6, <1>7

-----------------------------------------------------------------------------
(***************************************************************************)
(* The specification.                                                      *)
(***************************************************************************)
(* Nothing has come. *)
LEMMA InitIsGood == Init => HInv
<1> SUFFICES ASSUME Init PROVE HInv
  OBVIOUS
<1>1. h = Histo(0, MinBin, 0, <<>>) /\ log = [e \in Times \X Kinds |-> 0]
  BY DEF Init
<1>2. MinBin \in Nat \ {0} /\ MaxBins \in Nat /\ MaxKind \in Nat
  BY HistogramAssumption
<1>3. /\ h.start = 0 /\ h.width = MinBin /\ h.bins = 0 /\ h.series = <<>>
      /\ h \in Histograms
  BY <1>1, <1>2 DEF Histo, Histograms
<1>4. Shaped(h, 0)
  BY <1>2, <1>3 DEF Shaped
<1>5. log \in Logs /\ \A t \in Times, k \in Kinds : ~(log[<<t, k>>] > 0)
  BY <1>1 DEF Logs
<1>6. Exact(h, log) /\ Tight(h, Logged(log)) /\ Covers(h, log)
  BY <1>3, <1>5 DEF Exact, Tight, Covers
<1>7. Good(h, log, Logged(log), 0)
  BY <1>4, <1>5, <1>6 DEF Good, Logged
<1> QED BY <1>2, <1>7 DEF HInv

LEMMA NextKeepsGood == HInv /\ [Next]_vars => HInv'
<1> SUFFICES ASSUME HInv, [Next]_vars PROVE HInv'
  OBVIOUS
<1>1. PICK m \in 0 .. MaxKind : Good(h, log, Logged(log), m)
  BY DEF HInv
<1>2. ASSUME NEW t \in Times, NEW k \in Kinds, Add(t, k) PROVE HInv'
  <2>1. h' = add(h, t, k) /\ log' = [log EXCEPT ![<<t, k>>] = @ + 1]
    BY <1>2 DEF Add
  <2>2. log \in Logs
    BY <1>1 DEF Good
  <2>3. Logged(log') = Logged(log) \cup {t}
    <3>1. /\ log'[<<t, k>>] = log[<<t, k>>] + 1 /\ log[<<t, k>>] \in Nat
          /\ \A e \in Times \X Kinds : e # <<t, k>> => log'[e] = log[e]
      BY <2>1, <2>2 DEF Logs
    <3>2. \A u \in Times : u \in Logged(log') <=> u \in Logged(log) \/ u = t
      <4> TAKE u \in Times
      <4>1. CASE u = t
        <5>1. log'[<<t, k>>] > 0
          BY <3>1
        <5> QED BY <4>1, <5>1 DEF Logged
      <4>2. CASE u # t
        <5>1. \A j \in Kinds : log'[<<u, j>>] = log[<<u, j>>]
          BY <3>1, <4>2
        <5> QED BY <4>2, <5>1 DEF Logged
      <4> QED BY <4>1, <4>2
    <3>3. Logged(log') \subseteq Times /\ Logged(log) \subseteq Times
      BY DEF Logged
    <3> QED BY <3>2, <3>3
  <2>4. \E n \in 0 .. MaxKind : Good(h', log', Logged(log'), n)
    <3> DEFINE T == Logged(log)
    <3>1. \E n \in 0 .. MaxKind :
            Good(add(h, t, k), [log EXCEPT ![<<t, k>>] = @ + 1], T \cup {t}, n)
      <4>1. Good(h, log, T, m)
        BY <1>1
      <4> HIDE DEF T
      <4> QED BY <4>1, AddKeeps
    <3> QED BY <2>1, <2>3, <3>1, Zenon
  <2> QED BY <2>4 DEF HInv
<1>3. CASE UNCHANGED vars
  BY <1>3 DEF vars, HInv
<1> QED BY <1>2, <1>3 DEF Next

(* The counts are exact, the events have their place, and the last bin holds one. *)
THEOREM HistogramIsGood == Spec => []HInv
BY InitIsGood, NextKeepsGood, PTL DEF Spec

(* Every event is counted, once, in the bin that its time falls in, however the
   range has grown and been coarsened since. *)
THEOREM CountsExact == Spec => []CountsAreExact
<1>1. HInv => CountsAreExact
  <2> SUFFICES ASSUME HInv, NEW k \in DOMAIN h.series, NEW i \in 1 .. h.bins
               PROVE  h.series[k][i] = Came({k}, h.start + (i - 1) * h.width, h.start + i * h.width)
    BY DEF CountsAreExact
  <2>1. PICK m \in 0 .. MaxKind : Good(h, log, Logged(log), m)
    BY DEF HInv
  <2>2. /\ DOMAIN h.series = 1 .. m /\ Len(h.series) = m /\ m \in Nat /\ m <= MaxKind
        /\ h.bins \in Nat
    BY <2>1, ShapedParts DEF Good
  <2>3. h.series[k][i] = SumFunctionOnSet(log, Cell(h, k, i))
    BY <2>1, <2>2 DEF Good, Exact
  <2> DEFINE S == Cell(h, k, i)
             f == [e \in S |-> log[e]]
  <2>4. Came({k}, h.start + (i - 1) * h.width, h.start + i * h.width) = SumFunctionOnSet(f, S)
    <3>1. Edge(h, i) = h.start + (i - 1) * h.width /\ Edge(h, i + 1) = h.start + i * h.width
      BY <2>2 DEF Edge
    <3>2. S = {e \in Times \X {k} :
                 LET t == IF e[1] < h.start THEN h.start ELSE e[1] IN
                   h.start + (i - 1) * h.width <= t /\ t < h.start + i * h.width}
      BY <3>1 DEF Cell, ClampedTo
    <3>3. Came({k}, h.start + (i - 1) * h.width, h.start + i * h.width) = Total(f)
      BY <3>2 DEF Came
    <3> HIDE DEF S
    <3>4. DOMAIN f = S
      OBVIOUS
    <3> HIDE DEF f
    <3> QED BY <3>3, <3>4 DEF Total, SumFunction
  <2>5. IsFiniteSet(S)
    <3>1. k \in Kinds /\ log \in Logs
      BY <2>1, <2>2, HistogramAssumption DEF Kinds, Good
    <3> QED BY <3>1, CellsFinite
  <2> HIDE DEF S
  <2>6. \A e \in S : f[e] = log[e]
    OBVIOUS
  <2> HIDE DEF f
  <2>7. SumFunctionOnSet(f, S) = SumFunctionOnSet(log, S)
    BY <2>5, <2>6, SumSame
  <2> QED BY <2>3, <2>4, <2>7 DEF S
<1> QED BY <1>1, HistogramIsGood, PTL

(* Only what cannot be reached is put in the first bin: an event earlier than
   the range is within a bin's width of zero. *)
THEOREM FirstBinHonest == Spec => []FirstBinIsHonest
<1>1. HInv => FirstBinIsHonest
  BY DEF HInv, Good, Covers, FirstBinIsHonest
<1> QED BY <1>1, HistogramIsGood, PTL

(* The range has at most MAX_BINS bins from zero on, and ends with the bin of the
   last event: nothing is shown after it, and nothing comes after it. *)
THEOREM RangeTight == Spec => []RangeIsTight
<1>1. HInv => RangeIsTight
  <2> SUFFICES ASSUME HInv PROVE RangeIsTight
    OBVIOUS
  <2>1. PICK m \in 0 .. MaxKind : Good(h, log, Logged(log), m)
    BY DEF HInv
  <2>2. h \in Histograms /\ h.start \in Nat /\ h.bins \in Nat /\ h.bins <= MaxBins /\ log \in Logs
    BY <2>1, ShapedParts DEF Good
  <2>3. ASSUME NEW t \in Times, NEW k \in Kinds, log[<<t, k>>] > 0, t >= h.start
        PROVE  IndexOf(h, t) <= h.bins
    <3> DEFINE i == IndexOf(h, t)
    <3>1. t \in Nat /\ t < Edge(h, h.bins + 1)
      BY <2>1, <2>3, HistogramAssumption DEF Good, Covers
    <3>2. i \in Nat \ {0} /\ Edge(h, i) <= t
      BY <2>2, <2>3, <3>1, InItsBin
    <3> HIDE DEF i
    <3>3. i > h.bins => Edge(h, h.bins + 1) <= Edge(h, i)
      <4>1. h.bins + 1 \in Nat \ {0} /\ (i > h.bins => h.bins + 1 <= i)
        BY <2>2, <3>2
      <4> QED BY <2>2, <3>2, <4>1, EdgesRise
    <3>4. Edge(h, h.bins + 1) \in Nat /\ Edge(h, i) \in Nat
      BY <2>2, <3>2, EdgesRise
    <3>5. i <= h.bins
      BY <2>2, <3>1, <3>2, <3>3, <3>4
    <3> QED BY <3>5 DEF i
  <2>4. ASSUME h.bins > 0
        PROVE  \E t \in Times, k \in Kinds : log[<<t, k>>] > 0 /\ t >= h.start /\ IndexOf(h, t) = h.bins
    <3>1. PICK t \in Logged(log) : Edge(h, h.bins) <= t
      BY <2>1, <2>4 DEF Good, Tight
    <3>2. PICK k \in Kinds : log[<<t, k>>] > 0
      BY <3>1 DEF Logged
    <3>3. t \in Times /\ t \in Nat /\ h.bins \in Nat \ {0}
      BY <2>2, <2>4, HistogramAssumption DEF Logged
    <3>4. h.start <= Edge(h, h.bins) /\ Edge(h, h.bins) \in Nat
      BY <2>2, <3>3, EdgesRise
    <3>5. t >= h.start
      BY <2>2, <3>1, <3>3, <3>4
    <3> DEFINE i == IndexOf(h, t)
    <3>6. i \in Nat \ {0} /\ t < Edge(h, i + 1) /\ i <= h.bins
      BY <2>2, <2>3, <3>2, <3>3, <3>5, InItsBin
    <3> HIDE DEF i
    <3>7. i < h.bins => Edge(h, i + 1) <= Edge(h, h.bins) /\ Edge(h, i + 1) \in Nat
      <4>1. i + 1 \in Nat \ {0} /\ (i < h.bins => i + 1 <= h.bins)
        BY <3>3, <3>6
      <4> QED BY <2>2, <3>3, <4>1, EdgesRise
    <3>8. i = h.bins
      BY <3>1, <3>3, <3>4, <3>6, <3>7
    <3> QED BY <3>2, <3>3, <3>5, <3>8 DEF i
  <2> QED BY <2>2, <2>3, <2>4 DEF RangeIsTight
<1> QED BY <1>1, HistogramIsGood, PTL

-----------------------------------------------------------------------------
(***************************************************************************)
(* The charts: the busiest kinds, each of them once, ...                   *)
(***************************************************************************)
Busy(kinds) == {k \in kinds : Count(k) > 0}

LEMMA BusiestOnce ==
  ASSUME NEW kinds, IsFiniteSet(kinds), \A k \in kinds : k \in Nat /\ Count(k) \in Nat
  PROVE  /\ Cardinality(Busy(kinds)) \in Nat
         /\ DOMAIN Busiest(kinds) = 1 .. Cardinality(Busy(kinds))
         /\ Len(Busiest(kinds)) = Cardinality(Busy(kinds))
         /\ \A i \in DOMAIN Busiest(kinds) : Busiest(kinds)[i] \in Busy(kinds)
         /\ \A i, j \in DOMAIN Busiest(kinds) : i # j => Busiest(kinds)[i] # Busiest(kinds)[j]
         /\ \A k \in Busy(kinds) : \E i \in DOMAIN Busiest(kinds) : Busiest(kinds)[i] = k
<1> DEFINE busy == Busy(kinds)
           n == Cardinality(busy)
           rank == [k \in busy |-> Cardinality(Busier(busy, k))]
           list == Busiest(kinds)
<1>1. IsFiniteSet(busy) /\ n \in Nat
  BY FS_Subset, FS_CardinalityType DEF Busy
<1>2. \A k \in busy : k \in Nat /\ Count(k) \in Nat
  BY DEF Busy
<1>3. list = [i \in 1 .. n |-> CHOOSE k \in busy : Cardinality(Busier(busy, k)) = i - 1]
  BY DEF Busiest, Busy
<1> HIDE DEF busy, list
<1>4. \A j, k \in busy : j \in Busier(busy, k) \/ k \in Busier(busy, j) \/ j = k
  BY <1>2 DEF Busier
<1>5. \A k \in busy : IsFiniteSet(Busier(busy, k)) /\ Busier(busy, k) \in SUBSET busy /\ k \notin Busier(busy, k)
  <2> TAKE k \in busy
  <2>1. Busier(busy, k) \in SUBSET busy
    BY DEF Busier
  <2>2. k \notin Busier(busy, k)
    BY <1>2 DEF Busier
  <2> QED BY <1>1, <2>1, <2>2, FS_Subset
<1>6. \A j, k \in busy : j \in Busier(busy, k) => rank[j] < rank[k]
  <2> SUFFICES ASSUME NEW j \in busy, NEW k \in busy, j \in Busier(busy, k) PROVE rank[j] < rank[k]
    OBVIOUS
  <2> DEFINE J == Busier(busy, j)
             K == Busier(busy, k)
  <2>1. J \in SUBSET K
    BY <1>2 DEF Busier
  <2>2. j \in K /\ j \notin J /\ IsFiniteSet(K) /\ IsFiniteSet(J)
    BY <1>5
  <2>3. rank[j] = Cardinality(J) /\ rank[k] = Cardinality(K)
    OBVIOUS
  <2> HIDE DEF J, K, rank
  <2>4. Cardinality(J) <= Cardinality(K) /\ Cardinality(J) # Cardinality(K)
    BY <2>1, <2>2, FS_Subset
  <2>5. Cardinality(J) \in Nat /\ Cardinality(K) \in Nat
    BY <2>2, FS_CardinalityType
  <2> QED BY <2>3, <2>4, <2>5
<1>7. \A k \in busy : rank[k] \in 0 .. n - 1
  <2> TAKE k \in busy
  <2> DEFINE K == Busier(busy, k)
  <2>1. K \in SUBSET busy /\ k \notin K /\ k \in busy /\ IsFiniteSet(K)
    BY <1>5
  <2>2. rank[k] = Cardinality(K)
    OBVIOUS
  <2> HIDE DEF K, rank
  <2>3. Cardinality(K) <= n /\ Cardinality(K) # n
    BY <1>1, <2>1, FS_Subset
  <2>4. Cardinality(K) \in Nat
    BY <2>1, FS_CardinalityType
  <2> QED BY <1>1, <2>2, <2>3, <2>4
<1>8. \A j, k \in busy : rank[j] = rank[k] => j = k
  <2>1. \A k \in busy : rank[k] \in Nat
    BY <1>1, <1>7
  <2> QED BY <1>4, <1>6, <2>1
<1>9. \A x \in 0 .. n - 1 : \E k \in busy : rank[k] = x
  <2> DEFINE S == 0 .. n - 1
  <2>1. rank \in Injection(busy, S)
    BY <1>7, <1>8 DEF Injection, IsInjective
  <2>2. IsFiniteSet(S) /\ Cardinality(S) = n
    BY <1>1, FS_Interval
  <2> HIDE DEF S, rank
  <2>3. rank \in Surjection(busy, S)
    BY <2>1, <2>2, FS_Injection
  <2> QED BY <2>3 DEF Surjection, S
<1>10. \A k \in busy : rank[k] = Cardinality(Busier(busy, k))
  OBVIOUS
<1> HIDE DEF rank, n
<1>11. \A i \in 1 .. n : list[i] \in busy /\ rank[list[i]] = i - 1
  <2> TAKE i \in 1 .. n
  <2>1. i - 1 \in 0 .. n - 1
    BY <1>1
  <2>2. \E k \in busy : Cardinality(Busier(busy, k)) = i - 1
    BY <1>9, <1>10, <2>1
  <2> QED BY <1>3, <1>10, <2>2
<1>12. DOMAIN list = 1 .. n /\ Len(list) = n
  <2>1. DOMAIN list = 1 .. n
    BY <1>3
  <2>2. list \in [1 .. n -> busy]
    BY <1>3, <1>11
  <2>3. list \in Seq(busy)
    BY <1>1, <2>2, SeqDef
  <2> QED BY <1>1, <2>1, <2>3, LenProperties
<1>13. \A i, j \in 1 .. n : i # j => list[i] # list[j]
  BY <1>1, <1>11
<1>14. \A k \in busy : \E i \in 1 .. n : list[i] = k
  <2> TAKE k \in busy
  <2>1. rank[k] + 1 \in 1 .. n
    BY <1>1, <1>7
  <2>2. rank[list[rank[k] + 1]] = rank[k] /\ list[rank[k] + 1] \in busy
    BY <1>1, <1>7, <1>11, <2>1
  <2> QED BY <1>8, <2>1, <2>2
<1> QED BY <1>1, <1>11, <1>12, <1>13, <1>14 DEF busy, list, n

(* ... and the slots they are drawn in share them out. *)
LEMMA SlotsShareOut ==
  ASSUME NEW kinds, IsFiniteSet(kinds), \A k \in kinds : k \in Nat /\ Count(k) \in Nat
  PROVE  /\ \E q \in Nat : DOMAIN Slots(kinds) = 1 .. q /\ Len(Slots(kinds)) = q /\ q <= MaxSeries + 1
         /\ \A s \in DOMAIN Slots(kinds) : Slots(kinds)[s] \subseteq Busy(kinds)
         /\ \A s, t \in DOMAIN Slots(kinds) : s # t => Slots(kinds)[s] \cap Slots(kinds)[t] = {}
         /\ \A k \in Busy(kinds) : \E s \in DOMAIN Slots(kinds) : k \in Slots(kinds)[s]
<1> DEFINE list == Busiest(kinds)
           n == Len(list)
           busy == Busy(kinds)
           slots == Slots(kinds)
<1>1. /\ n \in Nat /\ DOMAIN list = 1 .. n
      /\ \A i \in 1 .. n : list[i] \in busy
      /\ \A i, j \in 1 .. n : i # j => list[i] # list[j]
      /\ \A k \in busy : \E i \in 1 .. n : list[i] = k
  BY BusiestOnce
<1>2. MaxSeries \in Nat \ {0}
  BY HistogramAssumption
<1>3. slots = IF n <= MaxSeries THEN [i \in DOMAIN list |-> {list[i]}]
              ELSE Append([i \in 1 .. MaxSeries |-> {list[i]}], {list[i] : i \in MaxSeries + 1 .. n})
  BY DEF Slots
<1> HIDE DEF list, busy, slots, n
<1>4. CASE n <= MaxSeries
  <2>1. slots = [i \in 1 .. n |-> {list[i]}]
    BY <1>1, <1>3, <1>4
  <2>2. slots \in Seq(SUBSET busy) /\ DOMAIN slots = 1 .. n
    <3>1. slots \in [1 .. n -> SUBSET busy]
      BY <1>1, <2>1
    <3> QED BY <1>1, <2>1, <3>1, SeqDef
  <2>3. Len(slots) = n
    BY <1>1, <2>2, LenProperties
  <2>4. n <= MaxSeries + 1
    BY <1>1, <1>2, <1>4
  <2> QED BY <1>1, <2>1, <2>2, <2>3, <2>4 DEF slots, busy
<1>5. CASE n > MaxSeries
  <2> DEFINE firsts == [i \in 1 .. MaxSeries |-> {list[i]}]
             others == {list[i] : i \in MaxSeries + 1 .. n}
             q == MaxSeries + 1
  <2>1. slots = Append(firsts, others)
    BY <1>1, <1>2, <1>3, <1>5
  <2>2. firsts \in Seq(SUBSET busy) /\ Len(firsts) = MaxSeries /\ others \in SUBSET busy
    <3>1. firsts \in [1 .. MaxSeries -> SUBSET busy]
      BY <1>1, <1>2, <1>5
    <3>2. firsts \in Seq(SUBSET busy)
      BY <1>2, <3>1, SeqDef
    <3>3. Len(firsts) = MaxSeries
      BY <1>2, <3>1, <3>2, LenProperties
    <3>4. others \in SUBSET busy
      BY <1>1, <1>2, <1>5
    <3> QED BY <3>2, <3>3, <3>4
  <2>3. \A i \in 1 .. MaxSeries : firsts[i] = {list[i]}
    OBVIOUS
  <2>4. \A x : x \in others <=> \E i \in MaxSeries + 1 .. n : x = list[i]
    OBVIOUS
  <2> HIDE DEF firsts, others
  <2>5. /\ slots \in Seq(SUBSET busy) /\ Len(slots) = q
        /\ \A i \in 1 .. MaxSeries : slots[i] = firsts[i]
        /\ slots[q] = others
    BY <1>2, <2>1, <2>2, AppendProperties
  <2>6. DOMAIN slots = 1 .. q /\ q \in Nat
    BY <1>2, <2>5, LenProperties
  <2> HIDE DEF q
  <2>7. \A s \in 1 .. q : s \in 1 .. MaxSeries \/ s = q
    BY <1>2 DEF q
  <2>8. \A s \in 1 .. q : slots[s] \subseteq busy
    BY <2>5, <2>6, ElementOfSeq
  <2>9. \A s, t \in 1 .. q : s # t => slots[s] \cap slots[t] = {}
    <3>1. \A s, t \in 1 .. MaxSeries : s # t => slots[s] \cap slots[t] = {}
      BY <1>1, <1>2, <1>5, <2>3, <2>5
    <3>2. \A s \in 1 .. MaxSeries : slots[s] \cap others = {}
      BY <1>1, <1>2, <1>5, <2>3, <2>4, <2>5
    <3> QED BY <2>5, <2>7, <3>1, <3>2
  <2>10. \A k \in busy : \E s \in 1 .. q : k \in slots[s]
    <3> TAKE k \in busy
    <3>1. PICK i \in 1 .. n : list[i] = k
      BY <1>1
    <3>2. CASE i <= MaxSeries
      BY <1>1, <1>2, <2>3, <2>5, <3>1, <3>2 DEF q
    <3>3. CASE i > MaxSeries
      <4>1. k \in others
        BY <1>1, <1>2, <2>4, <3>1, <3>3
      <4> QED BY <1>2, <2>5, <4>1 DEF q
    <3> QED BY <1>1, <1>2, <3>2, <3>3
  <2>11. q <= MaxSeries + 1
    BY <1>2 DEF q
  <2> QED BY <2>5, <2>6, <2>8, <2>9, <2>10, <2>11 DEF slots, busy
<1> QED BY <1>1, <1>2, <1>4, <1>5

-----------------------------------------------------------------------------
(***************************************************************************)
(* The events of some kinds between two times, and the cells they are in.  *)
(***************************************************************************)
Band(kinds, a, b) ==
  {e \in Times \X kinds : a <= ClampedTo(h.start, e[1]) /\ ClampedTo(h.start, e[1]) < b}

LEMMA BandsFinite ==
  ASSUME log \in Logs, NEW kinds \in SUBSET Kinds, NEW a, NEW b
  PROVE  IsFiniteSet(Band(kinds, a, b)) /\ \A e \in Band(kinds, a, b) : log[e] \in Nat
<1>1. IsFiniteSet(kinds)
  <2>1. MaxKind \in Nat
    BY HistogramAssumption
  <2>2. IsFiniteSet(1 .. MaxKind)
    BY <2>1, FS_Interval
  <2> QED BY <2>2, FS_Subset DEF Kinds
<1>2. IsFiniteSet(Times \X kinds)
  BY <1>1, HistogramAssumption, FS_Product
<1>3. Band(kinds, a, b) \in SUBSET (Times \X kinds)
  BY DEF Band
<1> QED BY <1>2, <1>3, FS_Subset DEF Logs

LEMMA CameIs ==
  ASSUME log \in Logs, NEW kinds \in SUBSET Kinds, NEW a, NEW b
  PROVE  Came(kinds, a, b) = SumFunctionOnSet(log, Band(kinds, a, b))
<1> DEFINE S == Band(kinds, a, b)
           f == [e \in S |-> log[e]]
<1>1. Came(kinds, a, b) = Total(f)
  BY DEF Came, Band, ClampedTo
<1>2. IsFiniteSet(S)
  BY BandsFinite
<1> HIDE DEF S
<1>3. DOMAIN f = S /\ \A e \in S : f[e] = log[e]
  OBVIOUS
<1> HIDE DEF f
<1>4. Total(f) = SumFunctionOnSet(f, S)
  BY <1>3 DEF Total, SumFunction
<1>5. SumFunctionOnSet(f, S) = SumFunctionOnSet(log, S)
  BY <1>2, <1>3, SumSame
<1> QED BY <1>1, <1>4, <1>5 DEF S

(* The time of an event is in the bins between two edges, in one of them. *)
LEMMA BetweenEdges ==
  ASSUME h \in Histograms, NEW t \in Nat, h.start <= t,
         NEW lo \in Nat \ {0}, NEW hi \in Nat, lo <= hi + 1,
         NEW i \in Nat \ {0}, Edge(h, i) <= t, t < Edge(h, i + 1)
  PROVE  i \in lo .. hi <=> Edge(h, lo) <= t /\ t < Edge(h, hi + 1)
<1>1. \A j \in Nat \ {0} : Edge(h, j) \in Nat
  BY EdgesRise
<1>2. i + 1 \in Nat \ {0} /\ hi + 1 \in Nat \ {0}
  OBVIOUS
<1>3. /\ lo <= i => Edge(h, lo) <= Edge(h, i)
      /\ i + 1 <= lo => Edge(h, i + 1) <= Edge(h, lo)
      /\ hi + 1 <= i => Edge(h, hi + 1) <= Edge(h, i)
      /\ i + 1 <= hi + 1 => Edge(h, i + 1) <= Edge(h, hi + 1)
  BY <1>2, EdgesRise
<1>4. Edge(h, lo) \in Nat /\ Edge(h, i) \in Nat /\ Edge(h, i + 1) \in Nat /\ Edge(h, hi + 1) \in Nat
  BY <1>1, <1>2
<1> DEFINE from == Edge(h, lo)
           at == Edge(h, i)
           next == Edge(h, i + 1)
           to == Edge(h, hi + 1)
<1>5. /\ lo <= i => from <= at
      /\ i + 1 <= lo => next <= from
      /\ hi + 1 <= i => to <= at
      /\ i + 1 <= hi + 1 => next <= to
      /\ from \in Nat /\ at \in Nat /\ next \in Nat /\ to \in Nat /\ at <= t /\ t < next
  BY <1>3, <1>4
<1> HIDE DEF from, at, next, to
<1>6. i \in lo .. hi <=> from <= t /\ t < to
  <2>1. CASE lo <= i /\ i <= hi
    BY <1>5, <2>1
  <2>2. CASE i < lo
    BY <1>5, <2>2
  <2>3. CASE hi < i
    BY <1>5, <2>3
  <2> QED BY <2>1, <2>2, <2>3
<1> QED BY <1>6 DEF from, to

CellsAt(slot, i) == {e \in Times \X slot : e \in Cell(h, e[2], i)}

LEMMA CellsMakeBand ==
  ASSUME h \in Histograms, NEW slot, NEW lo \in Nat \ {0}, NEW hi \in Nat, lo <= hi + 1
  PROVE  /\ UNION {CellsAt(slot, i) : i \in lo .. hi} = Band(slot, Edge(h, lo), Edge(h, hi + 1))
         /\ \A i, j \in lo .. hi : i # j => CellsAt(slot, i) \cap CellsAt(slot, j) = {}
<1> DEFINE time(e) == ClampedTo(h.start, e[1])
<1>1. \A e \in Times \X slot : time(e) \in Nat /\ h.start <= time(e)
  <2> TAKE e \in Times \X slot
  <2>1. e[1] \in Nat
    BY HistogramAssumption
  <2>2. h.start \in Nat
    BY DEF Histograms
  <2> DEFINE t == e[1]
             s == h.start
  <2>3. t \in Nat /\ s \in Nat
    BY <2>1, <2>2
  <2>4. time(e) = IF t < s THEN s ELSE t
    BY DEF ClampedTo
  <2> HIDE DEF t, s, time
  <2>5. time(e) \in Nat /\ s <= time(e)
    BY <2>3, <2>4
  <2> QED BY <2>5 DEF s
<1>2. \A i : \A e \in Times \X slot :
        e \in CellsAt(slot, i) <=> Edge(h, i) <= time(e) /\ time(e) < Edge(h, i + 1)
  BY DEF CellsAt, Cell
<1>3. \A e \in Times \X slot :
        e \in Band(slot, Edge(h, lo), Edge(h, hi + 1)) <=> Edge(h, lo) <= time(e) /\ time(e) < Edge(h, hi + 1)
  BY DEF Band
<1> HIDE DEF time
<1>4. \A i : CellsAt(slot, i) \subseteq Times \X slot
  BY DEF CellsAt
<1>5. Band(slot, Edge(h, lo), Edge(h, hi + 1)) \subseteq Times \X slot
  BY DEF Band
<1>6. ASSUME NEW i \in lo .. hi, NEW e \in CellsAt(slot, i)
      PROVE  e \in Band(slot, Edge(h, lo), Edge(h, hi + 1))
  <2>1. e \in Times \X slot
    BY <1>4
  <2>2. Edge(h, i) <= time(e) /\ time(e) < Edge(h, i + 1)
    BY <1>2, <2>1
  <2>3. time(e) \in Nat /\ h.start <= time(e)
    BY <1>1, <2>1
  <2>4. i \in Nat \ {0}
    OBVIOUS
  <2>5. Edge(h, lo) <= time(e) /\ time(e) < Edge(h, hi + 1)
    BY <2>2, <2>3, <2>4, BetweenEdges
  <2> QED BY <1>3, <2>1, <2>5
<1>7. ASSUME NEW e \in Band(slot, Edge(h, lo), Edge(h, hi + 1))
      PROVE  \E i \in lo .. hi : e \in CellsAt(slot, i)
  <2>1. e \in Times \X slot
    BY <1>5
  <2>2. time(e) \in Nat /\ h.start <= time(e)
    BY <1>1, <2>1
  <2> DEFINE i == IndexOf(h, time(e))
  <2>3. i \in Nat \ {0} /\ Edge(h, i) <= time(e) /\ time(e) < Edge(h, i + 1)
    BY <2>2, InItsBin
  <2>4. Edge(h, lo) <= time(e) /\ time(e) < Edge(h, hi + 1)
    BY <1>3, <2>1
  <2> HIDE DEF i
  <2>5. i \in lo .. hi
    BY <2>2, <2>3, <2>4, BetweenEdges
  <2>6. e \in CellsAt(slot, i)
    BY <1>2, <2>1, <2>3
  <2> QED BY <2>5, <2>6
<1>8. ASSUME NEW i \in lo .. hi, NEW j \in lo .. hi, NEW e \in CellsAt(slot, i) \cap CellsAt(slot, j)
      PROVE  i = j
  <2>1. e \in Times \X slot
    BY <1>4
  <2>2. /\ Edge(h, i) <= time(e) /\ time(e) < Edge(h, i + 1)
        /\ Edge(h, j) <= time(e) /\ time(e) < Edge(h, j + 1)
    BY <1>2, <2>1
  <2>3. time(e) \in Nat /\ h.start <= time(e)
    BY <1>1, <2>1
  <2>4. i \in Nat \ {0} /\ j \in Nat \ {0} /\ i <= i + 1
    OBVIOUS
  <2>5. j \in i .. i
    BY <2>2, <2>3, <2>4, BetweenEdges
  <2> QED BY <2>4, <2>5
<1> QED BY <1>6, <1>7, <1>8

(* A bin has what belongs in it, and one past the last has nothing. *)
LEMMA BinIs ==
  ASSUME NEW T, NEW m, Good(h, log, T, m), NEW k \in 1 .. m, NEW i \in Nat \ {0}
  PROVE  Bin(h.series[k], i) = SumFunctionOnSet(log, Cell(h, k, i))
<1>1. /\ h \in Histograms /\ m \in Nat /\ m <= MaxKind /\ h.bins \in Nat /\ Len(h.series) = m
      /\ Len(h.series[k]) = h.bins
  BY ShapedParts DEF Good
<1>2. k \in Kinds
  BY <1>1, HistogramAssumption DEF Kinds
<1>3. CASE i <= h.bins
  BY <1>1, <1>3 DEF Bin, Good, Exact
<1>4. CASE i > h.bins
  <2>1. log \in Logs /\ Covers(h, log)
    BY DEF Good
  <2> QED BY <1>1, <1>2, <1>4, <2>1, NothingAfter DEF Bin
<1> QED BY <1>1, <1>3, <1>4

(* A slot's column has the events of its kinds in its time. *)
LEMMA ColumnIs ==
  ASSUME NEW T, NEW m, Good(h, log, T, m), NEW slot \in SUBSET (1 .. m),
         NEW lo \in Nat \ {0}, NEW hi \in Nat, lo <= hi + 1
  PROVE  Total([i \in lo .. hi |-> Total([k \in slot |-> Bin(h.series[k], i)])])
           = SumFunctionOnSet(log, Band(slot, Edge(h, lo), Edge(h, hi + 1)))
<1> DEFINE part == [i \in lo .. hi |-> Total([k \in slot |-> Bin(h.series[k], i)])]
           A == [i \in lo .. hi |-> CellsAt(slot, i)]
<1>1. h \in Histograms /\ log \in Logs /\ m \in Nat /\ m <= MaxKind
  BY ShapedParts DEF Good
<1>2. 1 .. m \subseteq Kinds /\ IsFiniteSet(slot)
  <2>1. IsFiniteSet(1 .. m)
    BY <1>1, FS_Interval
  <2>2. IsFiniteSet(slot)
    BY <2>1, FS_Subset
  <2> QED BY <1>1, <2>2, HistogramAssumption DEF Kinds
<1>3. ASSUME NEW i \in lo .. hi
      PROVE  /\ Total([k \in slot |-> Bin(h.series[k], i)]) = SumFunctionOnSet(log, CellsAt(slot, i))
             /\ IsFiniteSet(CellsAt(slot, i)) /\ \A e \in CellsAt(slot, i) : log[e] \in Nat
  <2> DEFINE c == [k \in slot |-> Bin(h.series[k], i)]
             B == [k \in slot |-> Cell(h, k, i)]
  <2>1. \A k \in slot : c[k] = SumFunctionOnSet(log, B[k])
    BY BinIs
  <2>2. \A k \in slot : IsFiniteSet(B[k]) /\ \A e \in B[k] : log[e] \in Nat
    BY <1>1, <1>2, CellsFinite
  <2>3. \A j, k \in slot : j # k => B[j] \cap B[k] = {}
    BY DEF Cell
  <2>4. Together(B, slot) = CellsAt(slot, i)
    <3>1. ASSUME NEW k \in slot, NEW e \in B[k] PROVE e \in CellsAt(slot, i)
      <4>1. e \in Times \X {k} /\ e \in Cell(h, k, i)
        BY DEF Cell
      <4>2. e[2] = k /\ e \in Times \X slot
        BY <4>1
      <4> QED BY <4>1, <4>2 DEF CellsAt
    <3>2. ASSUME NEW e \in CellsAt(slot, i) PROVE e[2] \in slot /\ e \in B[e[2]]
      BY DEF CellsAt
    <3> HIDE DEF B
    <3> QED BY <3>1, <3>2 DEF Together
  <2>5. DOMAIN c = slot
    OBVIOUS
  <2> HIDE DEF c, B
  <2>6. Parts(slot, log, B, c)
    BY <1>2, <2>1, <2>2, <2>3 DEF Parts
  <2>7. SumFunctionOnSet(c, slot) = SumFunctionOnSet(log, CellsAt(slot, i)) /\ IsFiniteSet(CellsAt(slot, i))
    BY <2>4, <2>6, SumOfParts
  <2>8. Total(c) = SumFunctionOnSet(c, slot)
    BY <2>5 DEF Total, SumFunction
  <2>9. \A e \in CellsAt(slot, i) : log[e] \in Nat
    BY <1>1, <1>2 DEF CellsAt, Logs
  <2> QED BY <2>7, <2>8, <2>9 DEF c
<1>4. UNION {CellsAt(slot, i) : i \in lo .. hi} = Band(slot, Edge(h, lo), Edge(h, hi + 1))
  BY <1>1, CellsMakeBand
<1>5. \A i, j \in lo .. hi : i # j => CellsAt(slot, i) \cap CellsAt(slot, j) = {}
  BY <1>1, CellsMakeBand
<1>6. IsFiniteSet(lo .. hi)
  BY FS_Interval
<1>7. DOMAIN part = lo .. hi
  OBVIOUS
<1>8. \A i \in lo .. hi : /\ IsFiniteSet(A[i]) /\ \A e \in A[i] : log[e] \in Nat
                          /\ part[i] = SumFunctionOnSet(log, A[i])
  BY <1>3
<1>9. \A i, j \in lo .. hi : i # j => A[i] \cap A[j] = {}
  BY <1>5
<1>10. Together(A, lo .. hi) = Band(slot, Edge(h, lo), Edge(h, hi + 1))
  BY <1>4 DEF Together
<1> HIDE DEF part, A
<1>11. Parts(lo .. hi, log, A, part)
  BY <1>6, <1>8, <1>9 DEF Parts
<1>12. SumFunctionOnSet(part, lo .. hi) = SumFunctionOnSet(log, Band(slot, Edge(h, lo), Edge(h, hi + 1)))
  BY <1>10, <1>11, SumOfParts
<1> QED BY <1>7, <1>12 DEF Total, SumFunction, part

-----------------------------------------------------------------------------
(***************************************************************************)
(* The columns of all slots.                                               *)
(***************************************************************************)
LEMMA LengthOf ==
  ASSUME NEW f, NEW q \in Nat, f = [i \in 1 .. q |-> f[i]]
  PROVE  Len(f) = q
<1> DEFINE S == {f[i] : i \in 1 .. q}
<1>1. f \in [1 .. q -> S]
  OBVIOUS
<1> HIDE DEF S
<1>2. f \in Seq(S)
  BY <1>1, SeqDef
<1> QED BY <1>1, <1>2, LenProperties

(* Kinds that count for nothing have no events. *)
LEMMA CountIs ==
  ASSUME NEW T, NEW m, Good(h, log, T, m), NEW k \in 1 .. m
  PROVE  /\ Count(k) \in Nat
         /\ Count(k) = 0 => \A t \in Times : log[<<t, k>>] = 0
<1> DEFINE row == h.series[k]
           bins == h.bins
<1>1. /\ h \in Histograms /\ m \in Nat /\ m <= MaxKind /\ bins \in Nat /\ Len(h.series) = m
      /\ DOMAIN row = 1 .. bins /\ \A i \in 1 .. bins : row[i] \in Nat
      /\ log \in Logs /\ Covers(h, log)
  BY ShapedParts DEF Good
<1>2. Count(k) = SumFunctionOnSet(row, 1 .. bins)
  BY <1>1 DEF Count, Total, SumFunction
<1>4. k \in Kinds
  BY <1>1, HistogramAssumption DEF Kinds
<1>5. \A i \in 1 .. bins : row[i] = SumFunctionOnSet(log, Cell(h, k, i))
  BY <1>1 DEF Good, Exact
<1> HIDE DEF row, bins
<1>3. IsFiniteSet(1 .. bins)
  BY <1>1, FS_Interval
<1>6. Count(k) \in Nat
  BY <1>1, <1>2, <1>3, SumType
<1>7. ASSUME NEW t \in Times, log[<<t, k>>] # 0
      PROVE  Count(k) # 0
  <2> DEFINE e == <<t, k>>
             u == ClampedTo(h.start, t)
             i == IndexOf(h, u)
  <2>1. t \in Nat /\ log[e] \in Nat /\ log[e] > 0
    BY <1>1, <1>4, <1>7, HistogramAssumption DEF Logs
  <2>2. bins \in Nat \ {0} /\ t < Edge(h, bins + 1)
    BY <1>1, <1>4, <2>1 DEF Covers, bins
  <2>3. u \in Nat /\ h.start <= u /\ h.start \in Nat /\ h.width \in Nat \ {0}
    BY <1>1, <2>1 DEF ClampedTo, Histograms
  <2>4. h.start < Edge(h, bins + 1) /\ Edge(h, 1) = h.start
    <3>1. /\ Edge(h, bins + 1) = Edge(h, bins) + h.width /\ Edge(h, bins) \in Nat
          /\ h.start <= Edge(h, bins) /\ Edge(h, 1) = h.start
      BY <1>1, <2>2, EdgesRise
    <3> QED BY <2>3, <3>1
  <2>5. u < Edge(h, bins + 1) /\ Edge(h, 1) <= u
    BY <2>2, <2>3, <2>4 DEF ClampedTo
  <2> HIDE DEF u
  <2>6. i \in Nat \ {0} /\ Edge(h, i) <= u /\ u < Edge(h, i + 1)
    BY <1>1, <2>3, InItsBin
  <2> HIDE DEF i
  <2>7. i \in 1 .. bins
    <3>1. 1 \in Nat \ {0} /\ bins \in Nat /\ 1 <= bins + 1
      BY <2>2
    <3> QED BY <1>1, <2>3, <2>5, <2>6, <3>1, BetweenEdges
  <2>8. e \in Cell(h, k, i)
    BY <2>6 DEF Cell, u
  <2>9. IsFiniteSet(Cell(h, k, i)) /\ \A y \in Cell(h, k, i) : log[y] \in Nat
    BY <1>1, <1>4, CellsFinite
  <2> HIDE DEF e
  <2>10. log[e] <= SumFunctionOnSet(log, Cell(h, k, i))
    BY <2>8, <2>9, SumAtLeast
  <2>11. row[i] <= SumFunctionOnSet(row, 1 .. bins)
    BY <1>1, <1>3, <2>7, SumAtLeast
  <2>12. row[i] > 0
    BY <1>1, <1>5, <2>1, <2>7, <2>10
  <2> QED BY <1>1, <1>2, <1>6, <2>7, <2>11, <2>12
<1> QED BY <1>6, <1>7

(* There are no more columns than asked for. *)
LEMMA ColumnsFit ==
  ASSUME NEW n \in Nat \ {0}, NEW bins \in Nat, bins > 0
  PROVE  /\ CeilDiv(bins, n) \in Nat \ {0}
         /\ CeilDiv(bins, CeilDiv(bins, n)) \in Nat
         /\ CeilDiv(bins, CeilDiv(bins, n)) <= n
<1> DEFINE M == CeilDiv(bins, n)
           J == CeilDiv(bins, M)
<1>1. M \in Nat \ {0} /\ bins <= M * n
  BY CeilBounds
<1> HIDE DEF M
<1>2. J \in Nat /\ J > 0 /\ (J - 1) * M < bins
  BY <1>1, CeilBounds
<1> HIDE DEF J
<1>3. J <= n
  <2>1. SUFFICES ASSUME J > n PROVE FALSE
    BY <1>2
  <2>2. J - 1 \in Nat /\ J - 1 >= n
    BY <1>2, <2>1
  <2>3. (J - 1) * M >= n * M /\ n * M = M * n
    BY <1>1, <2>2
  <2> QED BY <1>1, <1>2, <2>2, <2>3
<1> QED BY <1>1, <1>2, <1>3 DEF J, M

(* The edges of a column. *)
LEMMA ColumnEdges ==
  ASSUME h \in Histograms, NEW M \in Nat \ {0}, NEW j \in Nat \ {0}
  PROVE  /\ (j - 1) * M + 1 \in Nat \ {0} /\ j * M \in Nat /\ (j - 1) * M + 1 <= j * M + 1
         /\ Edge(h, (j - 1) * M + 1) = h.start + (j - 1) * (M * h.width)
         /\ Edge(h, j * M + 1) = h.start + j * (M * h.width)
<1> DEFINE w == h.width
           s == h.start
           p == j - 1
<1>1. w \in Nat /\ s \in Nat /\ p \in Nat
  BY DEF Histograms
<1>2. Edge(h, p * M + 1) = s + (p * M + 1 - 1) * w /\ Edge(h, j * M + 1) = s + (j * M + 1 - 1) * w
  BY DEF Edge
<1>3. p * M \in Nat /\ j * M \in Nat /\ p * M <= j * M
  <2>1. j = p + 1
    OBVIOUS
  <2> HIDE DEF p
  <2>2. (p + 1) * M = p * M + M /\ p * M \in Nat
    BY <1>1
  <2> QED BY <2>1, <2>2
<1>4. (p * M) * w = p * (M * w) /\ (j * M) * w = j * (M * w)
  <2> HIDE DEF p, w
  <2> QED BY <1>1
<1> HIDE DEF p, w, s
<1>5. p * M + 1 - 1 = p * M /\ j * M + 1 - 1 = j * M
  BY <1>3
<1>6. Edge(h, p * M + 1) = s + p * (M * w) /\ Edge(h, j * M + 1) = s + j * (M * w)
  BY <1>2, <1>4, <1>5
<1> QED BY <1>3, <1>6 DEF p, w, s

(* The columns of the slots at one place hold what came in its time. *)
LEMMA SlotsHoldAll ==
  ASSUME NEW T, NEW m, Good(h, log, T, m), NEW slots, NEW q \in Nat, DOMAIN slots = 1 .. q,
         \A s \in 1 .. q : slots[s] \in SUBSET Busy(1 .. m),
         \A s, t \in 1 .. q : s # t => slots[s] \cap slots[t] = {},
         \A k \in Busy(1 .. m) : \E s \in 1 .. q : k \in slots[s],
         NEW a, NEW b, NEW c,
         \A s \in 1 .. q : c[s] = SumFunctionOnSet(log, Band(slots[s], a, b))
  PROVE  SumFunctionOnSet(c, 1 .. q) = Came(1 .. m, a, b)
<1> DEFINE kinds == 1 .. m
           A == [s \in 1 .. q |-> Band(slots[s], a, b)]
<1>1. h \in Histograms /\ log \in Logs /\ m \in Nat /\ m <= MaxKind /\ MaxKind \in Nat
  BY ShapedParts, HistogramAssumption DEF Good
<1>2. kinds \in SUBSET Kinds
  BY <1>1 DEF Kinds
<1>3. Busy(kinds) \in SUBSET kinds
  BY DEF Busy
<1> HIDE DEF kinds
<1>4. \A s \in 1 .. q : slots[s] \in SUBSET Kinds
  BY <1>2, <1>3 DEF kinds
<1>5. \A s \in 1 .. q : IsFiniteSet(A[s]) /\ \A e \in A[s] : log[e] \in Nat
  BY <1>1, <1>4, BandsFinite
<1>6. \A s, t \in 1 .. q : s # t => A[s] \cap A[t] = {}
  BY DEF Band
<1>7. IsFiniteSet(1 .. q) /\ \A s \in 1 .. q : c[s] = SumFunctionOnSet(log, A[s])
  BY FS_Interval
<1>8. Together(A, 1 .. q) = Band(Busy(kinds), a, b)
  <2>1. ASSUME NEW s \in 1 .. q, NEW e \in A[s] PROVE e \in Band(Busy(kinds), a, b)
    BY DEF Band, kinds
  <2>2. ASSUME NEW e \in Band(Busy(kinds), a, b) PROVE \E s \in 1 .. q : e \in A[s]
    <3>1. e[2] \in Busy(kinds)
      BY DEF Band
    <3>2. PICK s \in 1 .. q : e[2] \in slots[s]
      BY <3>1 DEF kinds
    <3>3. e \in Band(slots[s], a, b)
      BY <3>2 DEF Band
    <3> QED BY <3>3
  <2> HIDE DEF A
  <2> QED BY <2>1, <2>2 DEF Together
<1> HIDE DEF A
<1>9. Parts(1 .. q, log, A, c)
  BY <1>5, <1>6, <1>7 DEF Parts
<1>10. SumFunctionOnSet(c, 1 .. q) = SumFunctionOnSet(log, Band(Busy(kinds), a, b))
  BY <1>8, <1>9, SumOfParts
<1>11. SumFunctionOnSet(log, Band(Busy(kinds), a, b)) = SumFunctionOnSet(log, Band(kinds, a, b))
  <2> DEFINE S == Band(Busy(kinds), a, b)
             U == Band(kinds, a, b)
  <2>1. IsFiniteSet(S) /\ IsFiniteSet(U) /\ \A e \in S \cup U : log[e] \in Nat
    <3>1. Busy(kinds) \in SUBSET Kinds
      BY <1>2, <1>3
    <3> QED BY <1>1, <1>2, <3>1, BandsFinite
  <2>2. S \ U = {}
    BY <1>3 DEF Band
  <2>3. \A e \in U \ S : log[e] = 0
    <3> TAKE e \in U \ S
    <3>1. e[1] \in Times /\ e[2] \in kinds /\ e = <<e[1], e[2]>> /\ e[2] \notin Busy(kinds)
      BY DEF Band
    <3>2. Count(e[2]) \in Nat /\ (Count(e[2]) = 0 => \A t \in Times : log[<<t, e[2]>>] = 0)
      BY <3>1, CountIs DEF kinds
    <3>3. Count(e[2]) = 0
      BY <3>1, <3>2 DEF Busy
    <3>4. log[<<e[1], e[2]>>] = 0
      BY <3>1, <3>2, <3>3
    <3> QED BY <3>1, <3>4
  <2> HIDE DEF S, U
  <2>4. \A e \in (S \ U) \cup (U \ S) : log[e] = 0
    BY <2>2, <2>3
  <2>5. SumFunctionOnSet(log, S) = SumFunctionOnSet(log, U)
    BY <2>1, <2>4, SumSupport
  <2> QED BY <2>5 DEF S, U
<1>12. Came(kinds, a, b) = SumFunctionOnSet(log, Band(kinds, a, b))
  BY <1>1, <1>2, CameIs
<1> QED BY <1>10, <1>11, <1>12 DEF kinds

(* A chart has no more columns than asked for, and they hold exactly the events
   of their time, split among the series without loss or overlap. *)
THEOREM ChartsExact == Spec => []ChartsAreExact
<1>1. HInv => ChartsAreExact
  <2> SUFFICES ASSUME HInv PROVE ChartsAreExact
    OBVIOUS
  <2>1. PICK m \in 0 .. MaxKind : Good(h, log, Logged(log), m)
    BY DEF HInv
  <2> DEFINE kinds == DOMAIN h.series
             slots == Slots(kinds)
             bins == h.bins
  <2>2. kinds = 1 .. m /\ m \in Nat /\ bins \in Nat /\ h \in Histograms /\ h.width \in Nat \ {0}
    BY <2>1, ShapedParts DEF Good
  <2>3. IsFiniteSet(kinds)
    BY <2>2, FS_Interval
  <2>4. \A k \in kinds : k \in Nat /\ Count(k) \in Nat
    BY <2>1, <2>2, CountIs
  <2> HIDE DEF kinds, bins
  <2>5. PICK q \in Nat : DOMAIN slots = 1 .. q /\ Len(slots) = q /\ q <= MaxSeries + 1
    BY <2>3, <2>4, SlotsShareOut
  <2>6. /\ \A s \in 1 .. q : slots[s] \in SUBSET Busy(kinds)
        /\ \A s, t \in 1 .. q : s # t => slots[s] \cap slots[t] = {}
        /\ \A k \in Busy(kinds) : \E s \in 1 .. q : k \in slots[s]
    BY <2>3, <2>4, <2>5, SlotsShareOut
  <2> HIDE DEF slots
  <2>7. ASSUME NEW n \in Widths
        PROVE  LET charts == [s \in DOMAIN slots |-> downsample(slots[s], n)]
                   width == Merge(n) * h.width
               IN  /\ \A s \in DOMAIN charts : Len(charts[s]) <= n
                   /\ Len(charts) <= MaxSeries + 1
                   /\ bins > 0 =>
                        \A j \in 1 .. CeilDiv(bins, Merge(n)) :
                          Total([s \in DOMAIN charts |-> charts[s][j]])
                            = Came(kinds, h.start + (j - 1) * width, h.start + j * width)
    <3> DEFINE charts == [s \in DOMAIN slots |-> downsample(slots[s], n)]
               M == Merge(n)
               width == M * h.width
               J == CeilDiv(bins, M)
               long == IF bins = 0 THEN 0 ELSE J
    <3>1. n \in Nat \ {0}
      BY HistogramAssumption
    <3>2. bins > 0 => M \in Nat \ {0} /\ J \in Nat /\ J <= n
      BY <2>2, <3>1, ColumnsFit DEF Merge, bins
    <3>3. long \in Nat /\ long <= n
      BY <2>2, <3>1, <3>2
    <3>4. \A s \in 1 .. q : downsample(slots[s], n) =
            [j \in 1 .. long |-> Total([i \in ((j - 1) * M + 1) .. j * M |->
                                          Total([k \in slots[s] |-> Bin(h.series[k], i)])])]
      BY DEF downsample, bins
    <3> HIDE DEF M, J, long
    <3>5. DOMAIN charts = 1 .. q /\ \A s \in 1 .. q : charts[s] = downsample(slots[s], n)
      BY <2>5
    <3>6. Len(charts) = q
      <4>1. charts = [s \in 1 .. q |-> charts[s]]
        BY <2>5
      <4> HIDE DEF charts
      <4> QED BY <4>1, LengthOf
    <3> HIDE DEF charts
    <3>7. \A s \in 1 .. q : Len(charts[s]) = long
      <4> TAKE s \in 1 .. q
      <4>1. charts[s] = [j \in 1 .. long |-> charts[s][j]]
        BY <3>4, <3>5
      <4> QED BY <3>3, <4>1, LengthOf
    <3>8. ASSUME bins > 0, NEW j \in 1 .. J
          PROVE  Total([s \in DOMAIN charts |-> charts[s][j]])
                   = Came(kinds, h.start + (j - 1) * width, h.start + j * width)
      <4> DEFINE lo == (j - 1) * M + 1
                 hi == j * M
                 a == h.start + (j - 1) * width
                 b == h.start + j * width
                 c == [s \in DOMAIN charts |-> charts[s][j]]
      <4>1. M \in Nat \ {0} /\ J \in Nat /\ j \in Nat \ {0} /\ j \in 1 .. long
        BY <3>2, <3>8 DEF long
      <4>2. /\ lo \in Nat \ {0} /\ hi \in Nat /\ lo <= hi + 1
            /\ Edge(h, lo) = a /\ Edge(h, hi + 1) = b
        BY <2>2, <4>1, ColumnEdges
      <4>3. DOMAIN c = 1 .. q
        BY <3>5
      <4>4. ASSUME NEW s \in 1 .. q
            PROVE  c[s] = SumFunctionOnSet(log, Band(slots[s], a, b))
        <5>1. slots[s] \in SUBSET (1 .. m)
          BY <2>2, <2>6 DEF Busy
        <5>2. c[s] = Total([i \in lo .. hi |-> Total([k \in slots[s] |-> Bin(h.series[k], i)])])
          BY <3>4, <3>5, <4>1
        <5> HIDE DEF lo, hi, a, b, c
        <5>3. Total([i \in lo .. hi |-> Total([k \in slots[s] |-> Bin(h.series[k], i)])])
                = SumFunctionOnSet(log, Band(slots[s], Edge(h, lo), Edge(h, hi + 1)))
          BY <2>1, <4>2, <5>1, ColumnIs
        <5> QED BY <4>2, <5>2, <5>3
      <4> HIDE DEF lo, hi, a, b, c
      <4>5. SumFunctionOnSet(c, 1 .. q) = Came(1 .. m, a, b)
        BY <2>1, <2>2, <2>5, <2>6, <4>4, SlotsHoldAll
      <4>6. Total(c) = SumFunctionOnSet(c, 1 .. q)
        BY <4>3 DEF Total, SumFunction
      <4> QED BY <2>2, <4>5, <4>6 DEF a, b, c
    <3> QED
      <4> HIDE DEF width
      <4>1. \A s \in DOMAIN charts : Len(charts[s]) <= n
        BY <3>3, <3>5, <3>7
      <4>2. Len(charts) <= MaxSeries + 1
        BY <2>5, <3>6
      <4> QED BY <4>1, <4>2, <3>8 DEF charts, width, M, J
  <2> QED BY <2>7 DEF ChartsAreExact, kinds, slots, bins
<1> QED BY <1>1, HistogramIsGood, PTL

=============================================================================
