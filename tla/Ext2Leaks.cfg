CONSTANTS
  NInodes = 4
  NBlocks = 4
  NMINODES = 3
  NDirect = 1
  EntriesPerBlock = 6
  Commands = {"mkdir", "creat", "unlink", "symlink", "stat", "quit"}
  Paths <- OneName
  HiddenNames = {".", ".."}
  MaxRefs = 3
  MaxLinks = 2
SPECIFICATION Spec
INVARIANTS BitmapsRight OneCopy
