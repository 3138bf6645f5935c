----------------------------- MODULE MCGuestLists -----------------------------
(* The two users of LinkedList in one run: the lists of held mutexes and the  *)
(* thread queues.  The modules share no variable and neither calls the other, *)
(* so one of them moves and the other rests: the run is their sum, not their  *)
(* product.                                                                   *)
(*                                                                            *)
(* Three owners and three mutexes: a list long enough to lose its head, its   *)
(* middle or its tail, and two others that could be hit by mistake.  Four     *)
(* queued threads: an inner node on either side of the place of an insertion. *)
EXTENDS OSMutex, TLC

CONSTANTS
  o1, o2, o3, m1, m2, m3, t1, t2, t3, t4, q1,
  QueuedThreads, WaitQueues, NumPriorities, NoQueue

ASSUME QueuedAssumption == Null \notin QueuedThreads /\ NumPriorities \in Nat \ {0}

VARIABLES
  links, queueOf, prio, pending, lists,
  moving  \* which of the two moves

Queues == INSTANCE ThreadQueue WITH Threads <- QueuedThreads
queueVars == <<links, queueOf, prio, pending, lists>>

ListsInit ==
  /\ Init /\ Queues!Init
  /\ \/ moving = "mutexes" /\ \A t \in QueuedThreads : prio[t] = 0
     \/ moving = "queues" /\ \A t \in Threads : held.head[t] = Null

ListsNext ==
  /\ UNCHANGED moving
  /\ \/ moving = "mutexes" /\ Next /\ UNCHANGED queueVars
     \/ moving = "queues" /\ Queues!Next /\ UNCHANGED vars

ListsSpec == ListsInit /\ [][ListsNext]_<<vars, queueVars, moving>>

\* Of the queued threads only: the product of both groups costs more than it saves.
Symmetry == Permutations(QueuedThreads)

\* The words of every thread queue are the sequence RunQueues has for it.
LinksRepresentLists == Queues!LinksRepresentLists
===============================================================================
