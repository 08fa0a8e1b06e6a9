----------------------- MODULE MCAutomationScheduler -----------------------
(* AutomationScheduler on small instances; jobs of a kind are alike.       *)
EXTENDS AutomationScheduler, TLC

Symmetry == Permutations(Delivering) \cup Permutations(Job \ Delivering)
=============================================================================
