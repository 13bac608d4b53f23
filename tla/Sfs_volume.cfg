SPECIFICATION Spec
CONSTANTS
  p1 = p1  p2 = p2  name1 = name1  name2 = name2
  MaxBlocks = 8  NDIRECT = 1  DBPERIDB = 2  BLOCKSIZE = 2  DIRENTS = 2
  Name = {name1, name2}  Proc = {p1, p2}
  Plans <- TheWorkloads
SYMMETRY Renamings
CHECK_DEADLOCK FALSE
INVARIANTS NeverPanics BlocksExact CountsExact CleanIsOnDisk
PROPERTIES Implements FsckKeepsFiles
