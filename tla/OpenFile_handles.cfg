CONSTANTS
  p1 = p1
  p2 = p2
  file1 = file1
  file2 = file2
  con = con
  none = none
  Procs = {p1}
  Vnodes = {file1, file2}
  Console = con
  None = none
  SYSTEM_OPEN_MAX = 2
  OPEN_MAX = 3
  Sizes = {1}
  Positions <- Near
  MaxOffset = 1
  INT_MAX = 7
  Failures = {"vop", "copyout", "stat", "lock_create"}
SPECIFICATION Spec
CHECK_DEADLOCK FALSE
INVARIANTS CountsExact HandlesAreOpen
PROPERTIES HandlesKeepTheirFile
