-------------------------- MODULE MCTaskAdmission --------------------------
(* TaskAdmission for TLC: clients and task codes are interchangeable model   *)
(* values.                                                                 *)
EXTENDS TaskAdmission, TLC

Symmetry == Permutations(Client) \cup Permutations(TaskCode)
=============================================================================
