----------------------------- MODULE ThreadQueue -----------------------------
(***************************************************************************)
(* The words behind the queues of module RunQueues: each queue is a head   *)
(* and a tail, each OSThread has next, prev and queue words.  An action is *)
(* one call of a helper of the handlers; module OSScheduler says which     *)
(* calls a handler makes, and that no thread is linked while it is linked  *)
(* elsewhere (LinkedOnce), which is the callers' side of the contract.     *)
(*                                                                         *)
(* The variable lists is a history: what the operators of RunQueues make   *)
(* of the same calls.                                                      *)
(***************************************************************************)
EXTENDS RunQueues, LinkedList

VARIABLES
  links,    \* head, tail, next and prev
  queueOf,  \* OSThread.queue
  prio,     \* OSThread.priority
  pending,  \* 0x80386920
  lists     \* the queues, queueOf, prio and pending of RunQueues

vars == <<links, queueOf, prio, pending, lists>>

Init ==
  /\ links = [head |-> [q \in Queues |-> Null], tail |-> [q \in Queues |-> Null],
              next |-> [t \in Threads |-> Null], prev |-> [t \in Threads |-> Null]]
  /\ queueOf = [t \in Threads |-> NoQueue]
  /\ prio \in [Threads -> 0 .. LowestPriority]
  /\ pending = {}
  /\ lists = [queues |-> [q \in Queues |-> <<>>], queueOf |-> queueOf,
              prio |-> prio, pending |-> {}, resched |-> FALSE]

Linked(t) == \E q \in Queues : \E i \in DOMAIN lists.queues[q] : lists.queues[q][i] = t

\* External to this module: an unlinked thread gets a priority (OSCreateThread,
\* OSResumeThread, OSSuspendThread).
SetPriority(t, p) ==
  /\ ~Linked(t)
  /\ prio' = [prio EXCEPT ![t] = p]
  /\ lists' = [lists EXCEPT !.prio[t] = p]
  /\ UNCHANGED <<links, queueOf, pending>>

\* LinkThreadOnRunQueue and MarkRunQueuePending.
LinkThreadOnRunQueue(t) ==
  /\ ~Linked(t)
  /\ prio[t] \in Priorities
  /\ links' = LinkLast(links, prio[t], t)
  /\ queueOf' = [queueOf EXCEPT ![t] = prio[t]]
  /\ pending' = pending \cup {prio[t]}
  /\ lists' = LinkOnRunQueue(lists, t)
  /\ UNCHANGED prio

\* The walk from the head over threads at least as urgent as p stops at x.
StopsAt(q, p, x) ==
  \E passed \in SUBSET Threads :
    /\ links.head[q] \in passed \cup {x}
    /\ \A u \in passed : prio[u] <= p /\ links.next[u] \in passed \cup {x}
    /\ x # Null => prio[x] > p

\* InsertThreadIntoQueueByPriority: of any queue, with the pending bit for a run queue.
InsertThreadByPriority(q, t) ==
  /\ ~Linked(t)
  /\ \E x \in Threads \cup {Null} :
       /\ StopsAt(q, prio[t], x)
       /\ links' = IF x = Null THEN LinkLast(links, q, t) ELSE LinkBefore(links, q, t, x)
  /\ queueOf' = [queueOf EXCEPT ![t] = q]
  /\ pending' = IF q \in Priorities THEN pending \cup {q} ELSE pending
  /\ lists' = InsertByPriority(lists, q, t)
  /\ UNCHANGED prio

Cleared(k, t) == [k EXCEPT !.next[t] = Null, !.prev[t] = Null]

\* RemoveThreadFromQueue and UpdatePendingMaskForQueue.
RemoveThread(t) ==
  /\ Linked(t)
  /\ LET q == queueOf[t]
     IN  /\ links' = Cleared(Unlink(links, q, t), t)
         /\ pending' = IF links'.head[q] = Null THEN pending \ {q} ELSE pending
         /\ queueOf' = [queueOf EXCEPT ![t] = NoQueue]
         /\ lists' = RemoveFromQueue(lists, t)
         /\ UNCHANGED prio

\* PopThreadQueueHead of the run queue SelectThread found, with the words it writes.
PopThread(p) ==
  LET t == links.head[p]
  IN  /\ t # Null
      /\ links' = UnlinkHead(links, p)
      /\ pending' = IF links.next[t] = Null THEN pending \ {p} ELSE pending
      /\ queueOf' = [queueOf EXCEPT ![t] = NoQueue]
      /\ lists' = [lists EXCEPT
                     !.queues[p] = Tail(@),
                     !.pending = IF Len(lists.queues[p]) = 1 THEN @ \ {p} ELSE @,
                     !.queueOf[Head(lists.queues[p])] = NoQueue]
      /\ UNCHANGED prio

\* External: OSWakeupThread takes the head of a wait queue and leaves its words.
WakeThread(q) ==
  /\ links.head[q] # Null
  /\ links' = UnlinkHead(links, q)
  /\ lists' = [lists EXCEPT !.queues[q] = Tail(@)]
  /\ UNCHANGED <<queueOf, prio, pending>>

Next ==
  \/ \E t \in Threads, p \in 0 .. LowestPriority : SetPriority(t, p)
  \/ \E t \in Threads : LinkThreadOnRunQueue(t) \/ RemoveThread(t)
  \/ \E t \in Threads, q \in Queues : InsertThreadByPriority(q, t)
  \/ \E p \in Priorities : PopThread(p)
  \/ \E q \in WaitQueues : WakeThread(q)

Spec == Init /\ [][Next]_vars

-----------------------------------------------------------------------------

\* Whatever the order of the calls, the link words of every queue are exactly the
\* queue RunQueues has: no thread cut off, none reachable from one end only, the
\* walk of an insertion never passing a less urgent thread; and the pending mask and
\* the queue words, which the helpers derive from the links they find, are those
\* RunQueues derives from the sequences.
LinksRepresentLists ==
  /\ \A q \in Queues : Represents(links, q, lists.queues[q])
  /\ lists.queueOf = queueOf /\ lists.prio = prio /\ lists.pending = pending
=============================================================================
