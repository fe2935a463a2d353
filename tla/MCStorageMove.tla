---------------------------- MODULE MCStorageMove ----------------------------
(* Small instances of StorageMove: two files, versions of two sizes. *)
EXTENDS StorageMove

CONSTANTS a, b, gguf, stt, v1, v2, w

TwoStores == [f \in Files |-> IF f = a THEN gguf ELSE stt]
OneStore == [f \in Files |-> gguf]

\* v1 and v2 are of one size, and so is the damaged file.
Sizes == [v \in Versions \cup {Bad} |-> IF v = w THEN 2 ELSE 1]
=============================================================================
