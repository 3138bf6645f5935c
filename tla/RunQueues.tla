------------------------------ MODULE RunQueues ------------------------------
(***************************************************************************)
(* The thread queues of the guest scheduler as sequences, and what the     *)
(* handlers' helpers do to them: the 32 run queues with the mask of those  *)
(* to look at, and the wait queues.                                        *)
(*                                                                         *)
(* An operator takes the words w before and gives those after; it reads    *)
(* and writes the fields queues, queueOf, prio, pending and resched of w.  *)
(***************************************************************************)
EXTENDS Integers, Sequences, FiniteSets, SequencesExt

CONSTANTS
  Threads,        \* guest OSThread addresses
  WaitQueues,     \* OSThreadQueue addresses outside the run queue array
  NumPriorities,  \* 32 in the code; 0 is the most urgent
  NoQueue         \* a null OSThreadQueue pointer

Priorities == 0 .. NumPriorities - 1
Queues == Priorities \cup WaitQueues

\* What OSSuspendThread gives a waiting thread, and PPC_Cntlzw of no pending bit.
LowestPriority == NumPriorities

ASSUME QueuesAssumption ==
  /\ NumPriorities \in Nat \ {0}
  /\ WaitQueues \cap Priorities = {}
  /\ NoQueue \notin Queues

Cntlzw(mask) == IF mask = {} THEN LowestPriority ELSE Min(mask)

\* Faulty variants: newcomers overtake equals; newcomers always at the tail.
InsertionPointBeforeEquals(w, q, p) ==
  LET s == w.queues[q]
      after == {i \in DOMAIN s : w.prio[s[i]] >= p}
  IN  IF after = {} THEN Len(s) + 1 ELSE Min(after)

InsertionPointAtTail(w, q, p) == Len(w.queues[q]) + 1

\* Where a thread of priority p goes: before the first strictly less urgent one.
InsertionPoint(w, q, p) ==
  LET s == w.queues[q]
      after == {i \in DOMAIN s : w.prio[s[i]] > p}
  IN  IF after = {} THEN Len(s) + 1 ELSE Min(after)

InsertByPriority(w, q, t) ==
  [w EXCEPT !.queueOf[t] = q,
            !.queues[q] = InsertAt(@, InsertionPoint(w, q, w.prio[t]), t),
            !.pending = IF q \in Priorities THEN @ \cup {q} ELSE @]

Position(s, t) == CHOOSE i \in DOMAIN s : s[i] = t

\* Faulty variants: the links stay; the pending bit of an emptied queue stays.
RemoveFromQueueKeepingLinks(w, t) == [w EXCEPT !.queueOf[t] = NoQueue]

RemoveFromQueueKeepingBit(w, t) ==
  [w EXCEPT !.queueOf[t] = NoQueue,
            !.queues[w.queueOf[t]] = RemoveAt(@, Position(@, t))]

RemoveFromQueue(w, t) ==
  LET q == w.queueOf[t]
      left == RemoveAt(w.queues[q], Position(w.queues[q], t))
  IN  [w EXCEPT !.queueOf[t] = NoQueue,
                !.queues[q] = left,
                !.pending = IF left = <<>> THEN @ \ {q} ELSE @]

\* Faulty variant: the thread's queue field is not written.
LinkOnRunQueueWithoutField(w, t) ==
  [w EXCEPT !.queues[w.prio[t]] = Append(@, t),
            !.pending = @ \cup {w.prio[t]},
            !.resched = TRUE]

LinkOnRunQueue(w, t) ==
  [w EXCEPT !.queueOf[t] = w.prio[t],
            !.queues[w.prio[t]] = Append(@, t),
            !.pending = @ \cup {w.prio[t]},
            !.resched = TRUE]
=============================================================================
