--------------------------- MODULE MCFleetEngine ---------------------------
(***************************************************************************)
(* FleetEngine for TLC: two or three interchangeable callers of the handle.*)
(***************************************************************************)
EXTENDS FleetEngine, TLC

Symmetry == Permutations(Writers)
============================================================================
