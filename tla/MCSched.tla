------------------------------- MODULE MCSched -------------------------------
(* Sched for TLC: the values of the model's constants are in the .cfg       *)
(* files.  State constraint: none; every state space is finite.             *)
EXTENDS Sched
==============================================================================
