------------------------------- MODULE MCSynch ------------------------------
(* Instances of Synch for TLC.  The threads are interchangeable.           *)
EXTENDS Synch, TLC

MCSymmetry == Permutations(Threads)
=============================================================================
