---------------------------- MODULE MCGuestFiber ----------------------------
(* TLC instances of GuestFiber: the default thread and two others.          *)
EXTENDS GuestFiber, TLC

CONSTANTS main, t1, t2, t3, sched, h1, h2, h3

Workers == Threads \ {DefaultThread}
Symmetry == Permutations(Workers) \cup Permutations(Hosts \ {SchedulerHost})
=============================================================================
