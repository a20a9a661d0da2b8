--------------------------- MODULE MCHistoryPages ---------------------------
(* Model checking of HistoryPages. *)
EXTENDS HistoryPages, TLC

CONSTANTS r1, r2

Symmetry == Permutations(Requests)
=============================================================================
