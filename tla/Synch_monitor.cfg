\* three threads on one lock, two condition variables and a semaphore
SPECIFICATION Spec
CONSTANTS
  Threads = {t1, t2, t3}
  Locks = {l1}
  Cvs = {c1, c2}
  Sems = {s1}
  MaxCount = 2
  NoThread = NoThread
  NoLock = NoLock
  NoCv = NoCv
INVARIANTS MutualExclusion NoLostWakeup SleepsWithOneSpinlock
PROPERTIES MonitorSpec
\* every thread may be asleep in cv_wait with nobody left to signal
CHECK_DEADLOCK FALSE
