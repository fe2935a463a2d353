------------------------------ MODULE MCChatStore ------------------------------
(* The chat store for TLC: two threads, two sessions.                          *)
EXTENDS ChatStore, TLC

CONSTANTS t1, t2
TwoThreads == {t1, t2}
=============================================================================
