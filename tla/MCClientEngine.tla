--------------------------- MODULE MCClientEngine ---------------------------
(* The client's engine for TLC: a farm seen with two contexts that make the same  *)
(* environment, and none; two processes; any tree but the one put aside may be    *)
(* held, any removal but that of a staged engine may stop in the middle.          *)
EXTENDS ClientEngine_proofs, TLC

CONSTANTS f, f2, p1, p2

SomeHeld == Places \ {"old"}
SomeHalfDone == Places \ {"pending"}
SomeEnv == [c \in Contexts |-> IF c \in {f, f2} THEN "farm" ELSE c]
Symmetry == Permutations(Procs) \cup Permutations({f, f2})
=============================================================================
