CONSTANTS
  NInodes = 4
  NBlocks = 4
  NMINODES = 4
  NDirect = 1
  EntriesPerBlock = 6
  Commands = {"mkdir", "creat", "touch", "rmdir", "link", "unlink", "cd", "quit"}
  Paths <- WithUp
  HiddenNames = {".", ".."}
  MaxRefs = 3
  MaxLinks = 2
SPECIFICATION Spec
INVARIANTS TypeOK OneTree DirLinks HeldSlots PwdNamesCwd
 
