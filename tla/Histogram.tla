----------------------------- MODULE Histogram -----------------------------
(***************************************************************************)
(* Counts over a time range that is not known in advance                   *)
(* (crates/core/src/histogram.rs), and the charts drawn from them          *)
(* (crates/core/src/view.rs): the range grows both ways, and the bins      *)
(* double in width whenever there would be too many of them.               *)
(*                                                                         *)
(* A definition named X_Y is X with the mistake Y in it.                   *)
(***************************************************************************)
EXTENDS Integers, Sequences, FiniteSets, SequencesExt

CONSTANTS
  Times,      \* timestamps of events
  MaxKind,    \* kinds are 1 .. MaxKind, in the order they were interned
  MaxBins,    \* MAX_BINS
  MinBin,     \* MIN_BIN_MS
  MaxSeries,  \* MAX_SERIES
  Widths,     \* max_bins of the charts asked for
  Halvings,   \* bound of the model: coarsenings that one event may cause
  MaxEvents   \* bound of the model

(* Widths that the narrowest bin has after so many coarsenings. *)
Doubled ==
  LET width[n \in 0 .. Halvings] == IF n = 0 THEN MinBin ELSE 2 * width[n - 1]
  IN  width

ASSUME HistogramAssumption ==
  /\ Times \subseteq Nat /\ IsFiniteSet(Times)
  /\ MaxBins \in Nat /\ MaxBins >= 2
  /\ {MaxKind, MinBin, MaxSeries} \subseteq Nat \ {0}
  /\ Widths \subseteq Nat \ {0}
  /\ Halvings \in Nat /\ \A t \in Times : t < Doubled[Halvings]

VARIABLES
  h,     \* the Histogram: start and width in ms, and a row of bins for each kind
  log    \* history: how often each kind of event came at each time

vars == <<h, log>>

Kinds == 1 .. MaxKind
Total(f) == SumFunction(f)
CeilDiv(a, b) == (a + b - 1) \div b

-----------------------------------------------------------------------------
Zeroes(n) == [i \in 1 .. n |-> 0]
Histo(start, width, bins, series) ==
  [start |-> start, width |-> width, bins |-> bins, series |-> series]

ensure_kind(g, k) ==
  [g EXCEPT !.series = @ \o [i \in 1 .. (IF k > Len(@) THEN k - Len(@) ELSE 0) |-> Zeroes(g.bins)]]

set_bins_OneMore(g, n) ==
  Histo(g.start, g.width, n + 1,
        [k \in DOMAIN g.series |-> [i \in 1 .. n + 1 |-> IF i <= g.bins THEN g.series[k][i] ELSE 0]])
set_bins(g, n) ==
  Histo(g.start, g.width, n,
        [k \in DOMAIN g.series |-> [i \in 1 .. n |-> IF i <= g.bins THEN g.series[k][i] ELSE 0]])

(* Pairs of bins become one; start stays put. *)
Bin(row, i) == IF i <= Len(row) THEN row[i] ELSE 0
coarsen_Realigned(g) ==
  Histo(g.start - (g.start % (2 * g.width)), 2 * g.width, CeilDiv(g.bins, 2),
        [k \in DOMAIN g.series |->
           [i \in 1 .. CeilDiv(g.bins, 2) |-> g.series[k][2 * i - 1] + Bin(g.series[k], 2 * i)]])
coarsen(g) ==
  Histo(g.start, 2 * g.width, CeilDiv(g.bins, 2),
        [k \in DOMAIN g.series |->
           [i \in 1 .. CeilDiv(g.bins, 2) |-> g.series[k][2 * i - 1] + Bin(g.series[k], 2 * i)]])

(* g coarsened any number of times; the code stops as soon as one will do. *)
Coarsened(g) ==
  LET after[n \in 0 .. Halvings] == IF n = 0 THEN g ELSE coarsen(after[n - 1])
  IN  after

(* Whole bins before the first, as many as reach back to t, but never so many
   that start would fall below zero. *)
Wanted(g, t) == CeilDiv(g.start - t, g.width)
ReachingBack(g, t) ==
  Coarsened(g)[Min({n \in 0 .. Halvings :
                      Coarsened(g)[n].bins + Wanted(Coarsened(g)[n], t) <= MaxBins})]
extend_backwards(g, t) ==
  LET c == ReachingBack(g, t)
      most == c.start \div c.width
      extra == IF Wanted(c, t) < most THEN Wanted(c, t) ELSE most
  IN  Histo(c.start - extra * c.width, c.width, c.bins + extra,
            [k \in DOMAIN c.series |-> Zeroes(extra) \o c.series[k]])

Counted(g, k, i) == [g EXCEPT !.series[k][i] = @ + 1]

(* add, from the start of the range on: the bin that t falls in is there, or
   is put there, after as much coarsening as that needs. *)
IndexOf(g, t) == (t - g.start) \div g.width + 1
ReachingForward(g, t) ==
  Coarsened(g)[Min({n \in 0 .. Halvings : IndexOf(Coarsened(g)[n], t) <= MaxBins})]
Forward(g, t, k) ==
  LET c == ReachingForward(g, t)
      n == IndexOf(c, t)
  IN  Counted(IF n <= c.bins THEN c ELSE set_bins(c, n), k, n)

Anchored(g, t) == IF g.bins = 0 THEN set_bins([g EXCEPT !.start = t - (t % g.width)], 1) ELSE g

add_BackwardsIsFirst(g, t, k) ==
  LET known == Anchored(ensure_kind(g, k), t) IN
    IF t < known.start THEN Counted(known, k, 1) ELSE Forward(known, t, k)
add(g, t, k) ==
  LET known == Anchored(ensure_kind(g, k), t)
      reaching == IF t < known.start THEN extend_backwards(known, t) ELSE known
  IN  IF t < reaching.start THEN Counted(reaching, k, 1) ELSE Forward(reaching, t, k)

-----------------------------------------------------------------------------
Init ==
  /\ h = Histo(0, MinBin, 0, <<>>)
  /\ log = [e \in Times \X Kinds |-> 0]

(* A kind is interned when it is first seen, so it is at most one past the last. *)
Add(t, k) ==
  /\ Total(log) < MaxEvents
  /\ k <= Len(h.series) + 1
  /\ h' = add(h, t, k)
  /\ log' = [log EXCEPT ![<<t, k>>] = @ + 1]

Next == \E t \in Times, k \in Kinds : Add(t, k)

Spec == Init /\ [][Next]_vars

-----------------------------------------------------------------------------
(***************************************************************************)
(* The charts.                                                             *)
(***************************************************************************)
(* Whole bins are merged, so that at most n columns are left. *)
Merge(n) == CeilDiv(h.bins, n)
downsample(slot, n) ==
  [j \in 1 .. (IF h.bins = 0 THEN 0 ELSE CeilDiv(h.bins, Merge(n))) |->
     Total([i \in ((j - 1) * Merge(n) + 1) .. j * Merge(n) |->
              Total([k \in slot |-> Bin(h.series[k], i)])])]

(* The series of timeline_group: the busiest kinds on their own, and the rest
   of them in one. *)
Count(k) == Total(h.series[k])
(* Those sorted before it: with more events, or as many and interned earlier. *)
Busier(kinds, k) == {j \in kinds : Count(j) > Count(k) \/ (Count(j) = Count(k) /\ j < k)}
Busiest(kinds) ==
  LET busy == {k \in kinds : Count(k) > 0}
  IN  [i \in 1 .. Cardinality(busy) |-> CHOOSE k \in busy : Cardinality(Busier(busy, k)) = i - 1]
Slots_CapOnly(kinds) ==
  LET busiest == Busiest(kinds) IN
    [i \in 1 .. (IF Len(busiest) < MaxSeries THEN Len(busiest) ELSE MaxSeries) |-> {busiest[i]}]
Slots(kinds) ==
  LET busiest == Busiest(kinds) IN
    IF Len(busiest) <= MaxSeries THEN [i \in DOMAIN busiest |-> {busiest[i]}]
    ELSE Append([i \in 1 .. MaxSeries |-> {busiest[i]}],
                {busiest[i] : i \in MaxSeries + 1 .. Len(busiest)})

-----------------------------------------------------------------------------
(* The events of a set of kinds that came from time a to before b; those before
   the start of the range count as coming at it. *)
Came(kinds, a, b) ==
  Total([e \in {e \in Times \X kinds :
                  LET t == IF e[1] < h.start THEN h.start ELSE e[1] IN a <= t /\ t < b} |-> log[e]])

(* Every event is counted, once, in the bin that its time falls in, however the
   range has grown and been coarsened since. *)
CountsAreExact ==
  \A k \in DOMAIN h.series : \A i \in 1 .. h.bins :
    h.series[k][i] = Came({k}, h.start + (i - 1) * h.width, h.start + i * h.width)

(* Only what cannot be reached is put in the first bin: an event earlier than
   the range is within a bin's width of zero. *)
FirstBinIsHonest ==
  \A t \in Times, k \in Kinds : log[<<t, k>>] > 0 /\ t < h.start => h.start < h.width

(* The range has at most MAX_BINS bins from zero on, and ends with the bin of the
   last event: nothing is shown after it, and nothing comes after it. *)
RangeIsTight ==
  /\ h.start >= 0 /\ h.bins <= MaxBins
  /\ \A t \in Times, k \in Kinds : log[<<t, k>>] > 0 /\ t >= h.start => IndexOf(h, t) <= h.bins
  /\ h.bins > 0 =>
       \E t \in Times, k \in Kinds : log[<<t, k>>] > 0 /\ t >= h.start /\ IndexOf(h, t) = h.bins

(* A chart has no more columns than asked for, and they hold exactly the events
   of their time, split among the series without loss or overlap. *)
ChartsAreExact ==
  \A n \in Widths :
    LET kinds == DOMAIN h.series
        charts == [s \in DOMAIN Slots(kinds) |-> downsample(Slots(kinds)[s], n)]
        width == Merge(n) * h.width
    IN  /\ \A s \in DOMAIN charts : Len(charts[s]) <= n
        /\ Len(charts) <= MaxSeries + 1
        /\ h.bins > 0 =>
             \A j \in 1 .. CeilDiv(h.bins, Merge(n)) :
               Total([s \in DOMAIN charts |-> charts[s][j]])
                 = Came(kinds, h.start + (j - 1) * width, h.start + j * width)

=============================================================================
