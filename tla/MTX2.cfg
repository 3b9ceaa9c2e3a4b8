SPECIFICATION FairSpec
CONSTANTS
  NPROC = 4
  Events = {1, 2}
INVARIANTS KernelOK FamilyOK WaitCursorOK
PROPERTIES BuriedByParent DeathWakesParent ImplementsKernel ReadyRuns
CHECK_DEADLOCK FALSE
