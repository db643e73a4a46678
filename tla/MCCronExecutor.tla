--------------------------- MODULE MCCronExecutor ---------------------------
(* Small instances of CronExecutor: slots are interchangeable.             *)
EXTENDS CronExecutor, TLC

Symmetry == Permutations(Run) \cup Permutations(Request)

=============================================================================
