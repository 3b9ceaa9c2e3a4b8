SPECIFICATION Spec
CONSTANTS
  NPROC = 4
  Events = {2}
PROPERTY BuryUnlinksOneChild
CHECK_DEADLOCK FALSE
