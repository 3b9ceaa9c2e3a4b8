CONSTANTS
  NInodes = 4
  NBlocks = 4
  NMINODES = 4
  NDirect = 1
  EntriesPerBlock = 6
  Commands = {"mkdir", "creat", "cd", "ls", "quit"}
  Paths <- TwoNames
  HiddenNames = {".", ".."}
  MaxRefs = 4
  MaxLinks = 3
SPECIFICATION Spec
INVARIANTS HeldSlots
