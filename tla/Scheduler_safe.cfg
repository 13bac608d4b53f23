SPECIFICATION Spec
CONSTANTS
  NumCpus = 2
  Threads = {t1, t2, t3}
  MIGRATE_HARDCLOCKS = 1
  Does = {"fork", "yield", "sleep", "wake", "exit", "shutdown", "device"}
SYMMETRY Renamings
INVARIANTS StacksSafe QueuesExact NoLostUnidle InterruptsBalanced
CHECK_DEADLOCK FALSE
