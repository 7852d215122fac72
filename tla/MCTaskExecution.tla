--------------------------- MODULE MCTaskExecution ---------------------------
(* TaskExecution on small instances.                                       *)
EXTENDS TaskExecution, TLC

HostsAndTasks == Permutations(Hosts) \union Permutations(Tasks)
=============================================================================
