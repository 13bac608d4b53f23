CONSTANTS
  k = k
  none = none
  a = a
  b = b
  c = c
  d = d
  Procs = {a, b, c, d}
  KProc = k
  NoProc = none
  MAX_PROC = 3
  Forkers = {a, b}
  Options = {"plain"}
  Failures = {}
SPECIFICATION Spec
CHECK_DEADLOCK FALSE
SYMMETRY Alike
INVARIANTS UniquePids FamilyTree ReturnsOnlyExited ReapedByOne
