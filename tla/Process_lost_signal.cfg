CONSTANTS
  k = k
  none = none
  a = a
  b = b
  c = c
  d = d
  Procs = {a, b}
  KProc = k
  NoProc = none
  MAX_PROC = 2
  Forkers = {a}
  Options = {"plain"}
  Failures = {}
SPECIFICATION FairSpec
CHECK_DEADLOCK FALSE
PROPERTIES WaitpidReturns
