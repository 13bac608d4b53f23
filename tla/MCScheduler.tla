---------------------------- MODULE MCScheduler ----------------------------
(* Threads that differ in nothing but their name.                          *)
EXTENDS Scheduler, TLC
Renamings == Permutations(Threads)
=============================================================================
