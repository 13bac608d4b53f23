----------------------------- MODULE MCProcess ------------------------------
(***************************************************************************)
(* Instances of Process.  The first process the menu starts is not fixed,  *)
(* so processes that fork are interchangeable, and so are those that do    *)
(* not.                                                                    *)
(***************************************************************************)
EXTENDS Process, TLC

CONSTANTS k, none, a, b, c, d

Alike == Permutations(Forkers) \cup Permutations(Procs \ Forkers)

=============================================================================
