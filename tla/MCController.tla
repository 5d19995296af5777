---------------------------- MODULE MCController ----------------------------
(* The values that the configurations give to the constants of Controller. *)
EXTENDS Controller, TLC

CONSTANTS a1, a2

Interchangeable == Permutations(Apps)

=============================================================================
