CONSTANTS
  NNodes = 4
  Paths <- SomePaths
  CdPaths <- SomeCdPaths
SPECIFICATION Spec
INVARIANTS TreeOK CwdUsable
 

