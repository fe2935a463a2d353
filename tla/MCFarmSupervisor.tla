-------------------------- MODULE MCFarmSupervisor ---------------------------
(* The Farm app for TLC: two coroutines at once, a process for each of them and *)
(* one for the supervisor's child.                                              *)
EXTENDS FarmSupervisor

CONSTANTS o1, o2, p1, p2, p3
=============================================================================
