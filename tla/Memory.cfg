SPECIFICATION MCSpec
CONSTANTS
  nRamFrames = 5
  BootFrames = 1
  StackPages = 1
  FreeTablePages = 0
  SizeTablePages = 1
  RegionPages = {0, 1}
  KernelPages = {1, 2}
  Threads = {t1, t2}
  AddrSpaces = {a1, a2}
  KBlocks = {k1, k2}
  VmTables = VmTables
CONSTRAINT Undamaged
SYMMETRY MCSymmetry
INVARIANTS FramesDisjoint FreeFramesUnused FreesNoMoreThanHeld SpacesLoseNoFrame HeapSound
CHECK_DEADLOCK FALSE
