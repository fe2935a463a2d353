----------------------------- MODULE MCSeatGate -----------------------------
(* The seat gate for TLC: the constants of SeatGate and a bound on nothing     *)
(* else, every other variable being bounded by its guards.                     *)
EXTENDS SeatGate, TLC

CallerSymmetry == Permutations(Callers)
RequestSymmetry == Permutations(Requests)
Symmetry == CallerSymmetry \cup RequestSymmetry
=============================================================================
