------------------------------- MODULE MCSfs -------------------------------
EXTENDS Sfsck, TLC
CONSTANTS p1, p2, name1, name2
Workload(nblocks, procs, names, writes, lengths, syncs, cs, fs) ==
  [nblocks |-> nblocks, procs |-> procs, names |-> names, writes |-> writes,
   lengths |-> lengths, syncs |-> syncs, crashes |-> cs, faults |-> fs]
(* Two names without contents and one file with direct and indirect blocks *)
(* on a machine that may stop; two processes; and a block transfer that    *)
(* fails, under one file with contents and under two names.                *)
TheWorkloads ==
  {Workload(6, {p1}, {name1, name2}, {}, {}, TRUE, 1, 0),
   Workload(8, {p1}, {name1}, {<<0, 1>>, <<2, 2>>}, {0}, FALSE, 1, 0),
   Workload(6, {p1, p2}, {name1}, {<<1, 1>>}, {0}, FALSE, 0, 0),
   Workload(7, {p1}, {name1}, {<<3, 2>>}, {0}, TRUE, 0, 1),
   Workload(6, {p1}, {name1, name2}, {}, {}, FALSE, 0, 1)}
Renamings == Permutations(Proc) \cup Permutations(Name)
=============================================================================
