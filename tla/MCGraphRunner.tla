---------------------------- MODULE MCGraphRunner ----------------------------
(* A document small enough for TLC: a Confirm, the draft it lets through, and a  *)
(* Button that sends it round again.                                             *)
EXTENDS GraphRunner, TLC

CONSTANTS check, draft, go

Document == {check, draft, go}
InOrder == <<check, draft, go>>
Forward == {<<check, draft>>, <<draft, go>>}
Around == {<<go, check>>}
Round == (<<go, check>> :> Document)
Once == [b \in Document |-> 1]
Askers == {draft}
Confirms == {check}
Buttons == {go}
Gates == {}
=============================================================================
