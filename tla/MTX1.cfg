SPECIFICATION FairSpec
CONSTANTS
  NPROC = 6
INVARIANTS KernelOK
PROPERTIES ImplementsKernel ReadyRuns
CHECK_DEADLOCK FALSE
