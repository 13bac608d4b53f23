SPECIFICATION FairSpec
CONSTANTS
  NumCpus = 2
  Threads = {t1, t2, t3}
  MIGRATE_HARDCLOCKS = 1
  Does = {"fork", "yield", "exit"}
PROPERTY ReadyRuns
