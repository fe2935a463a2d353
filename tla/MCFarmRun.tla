------------------------------ MODULE MCFarmRun ------------------------------
(* The running farm for TLC: two pids for LiteLLM, two for llama-server, two     *)
(* sets of models. Pids and sets are interchangeable, so the farm starts with    *)
(* the first of each.                                                            *)
EXTENDS FarmRun

CONSTANTS x1, x2, e1, e2, few, many

MCInit == Init /\ child = x1 /\ llama \in {None, e1} /\ models = few
MCSpec == MCInit /\ [][Next]_vars /\ Fairness
=============================================================================
