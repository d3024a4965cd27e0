------------------------- MODULE MCShadowScheduler -------------------------
(* Model-checking instance of ShadowScheduler.                             *)
EXTENDS ShadowScheduler

MCCallers == {"c1", "c2"}
MCWorkers == {"w1", "w2"}

=============================================================================
