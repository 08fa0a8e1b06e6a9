--------------------------- MODULE MCTaskManager ---------------------------
(* TaskManager on small instances; ids and workers of a kind are alike.    *)
EXTENDS TaskManager, TLC

Symmetry ==
  Permutations(Worker) \cup Permutations(Cron) \cup Permutations(Task \ Cron)
=============================================================================
