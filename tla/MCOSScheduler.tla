--------------------------- MODULE MCOSScheduler ---------------------------
(* OSScheduler for TLC: the default thread and interchangeable others.      *)
EXTENDS OSScheduler

CONSTANTS t1, t2, t3

OtherThreads == Permutations(Threads \ {DefaultThread})
Symmetry == OtherThreads \cup Permutations(WaitQueues)
=============================================================================
