CONSTANTS
  NInodes = 5
  NBlocks = 5
  NMINODES = 4
  NDirect = 2
  EntriesPerBlock = 3
  Commands = {"mkdir", "creat", "touch", "chmod", "cd", "ls", "quit"}
  Paths <- ThreeNames
  HiddenNames = {".", ".."}
  MaxRefs = 4
  MaxLinks = 3
SPECIFICATION Spec
INVARIANTS HeldDirsAreUsed
 
