---------------------------- MODULE MCLinkedQueue ----------------------------
\* Five PROCs of priorities 0, 1, 1, 2, 2 and two lists.
EXTENDS LinkedQueue

MCPrio == [p \in Procs |-> p \div 2]

=============================================================================
