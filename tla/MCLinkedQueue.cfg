SPECIFICATION Spec
CONSTANTS
  Procs = {1, 2, 3, 4, 5}
  Lists = {readyQueue, sleepList}
  Prio <- MCPrio
  NULL = NULL
INVARIANTS ListsApart
PROPERTIES ImplementsQueues
