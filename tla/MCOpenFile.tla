----------------------------- MODULE MCOpenFile -----------------------------
(***************************************************************************)
(* Instances of OpenFile.  Negative arguments of lseek are built from      *)
(* their absolute values, which a configuration can write.                 *)
(***************************************************************************)
EXTENDS OpenFile, TLC

CONSTANTS p1, p2, file1, file2, con, none

Near == {-1, 0, 1}

=============================================================================
