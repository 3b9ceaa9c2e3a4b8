CONSTANTS
  NInodes = 4
  NBlocks = 5
  NMINODES = 3
  NDirect = 2
  EntriesPerBlock = 6
  Commands = {"open", "close", "write", "read", "lseek", "cp", "mv", "unlink", "quit"}
  Paths <- OneFile
  HiddenNames = {".", ".."}
  MaxRefs = 5
  MaxLinks = 2
  NFD = 2
  BLKSIZE = 2
  Modes = {"R", "RW", "APPEND"}
  Lines <- TwoLines
  Pairs <- ThreePairs
  MaxBytes = 3
SPECIFICATION FilesSpec
INVARIANTS FilesTypeOK OneWriter DescriptorsHold  BlocksApart
 
CONSTRAINT Whole
