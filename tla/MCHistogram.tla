---------------------------- MODULE MCHistogram ----------------------------
(* Times within a bin, a bin apart, and far enough apart to coarsen several
   times at once, in either direction; one close to zero. *)
EXTENDS Histogram

MCTimes == {1, 6, 7, 9, 14, 23, 40, 90}

=============================================================================
