----------------------------- MODULE MCChatSlot -----------------------------
(* Chat windows small enough for TLC. *)
EXTENDS ChatSlot, TLC

CONSTANTS m1, m2, k1, k2

TwoMsgs == {m1, m2}
OneMsg == {m1}
NoMsgs == {}
TwoCalls == {k1, k2}

\* The replies and the coroutines are interchangeable.
Symmetry == Permutations(Msgs) \cup Permutations(Calls)
=============================================================================
