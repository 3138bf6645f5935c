-------------------------- MODULE OSSchedulerProofs --------------------------
(***************************************************************************)
(* The safety of OSScheduler for every set of threads and wait queues,     *)
(* every number of priorities and no bound on the run.                     *)
(*                                                                         *)
(* A handler takes a thread out of the lists, changes its words, and links *)
(* it somewhere else.  Consistent(w, sus, T) says of the words w that the  *)
(* lists hold exactly the threads of T that belong there: it holds with    *)
(* T = Threads between handlers, and with T = Threads \ {t} while the      *)
(* handler has t in its hands.  The lemmas below are the moves between the *)
(* two; every action is a short sequence of them.                          *)
(***************************************************************************)
EXTENDS OSScheduler, QueueTheorems, FiniteSetTheorems, TLAPS

WordsSet ==
  [state : [Threads -> ThreadStates],
   prio : [Threads -> 0 .. LowestPriority],
   queueOf : [Threads -> Queues \cup {NoQueue}],
   queues : [Queues -> Seq(Threads)],
   pending : SUBSET Priorities,
   resched : BOOLEAN,
   running : Threads \cup {NoThread},
   current : Threads \cup {NoThread, ExceptionContext}]

\* The run queue or wait queue u belongs in is q.
Belongs(w, sus, u, q) ==
  \/ w.state[u] = "ready" /\ sus[u] = 0 /\ w.prio[u] = q
  \/ w.state[u] = "waiting" /\ w.queueOf[u] = q

\* What holds of u's own words.
Sound(w, sus, u) ==
  /\ w.state[u] = "ready" /\ sus[u] = 0 => w.queueOf[u] = w.prio[u]
  /\ w.state[u] = "waiting" => w.queueOf[u] \in WaitQueues
  /\ w.state[u] = "running" => u = w.running /\ sus[u] = 0
  /\ w.state[u] \in Dead => sus[u] = 0
  /\ sus[u] = 0 => w.prio[u] \in Priorities
  /\ w.state[u] = "waiting" /\ sus[u] # 0 => w.prio[u] = LowestPriority

Lists(w, sus, T) ==
  \A q \in Queues :
    Distinct(w.queues[q]) /\ Range(w.queues[q]) = {u \in T : Belongs(w, sus, u, q)}

Mask(w) == \A p \in Priorities : p \in w.pending <=> w.queues[p] # <<>>

Sorted(w) == \A q \in WaitQueues : Ordered(w.queues[q], w.prio)

Consistent(w, sus, T) ==
  /\ w \in WordsSet
  /\ Lists(w, sus, T)
  /\ \A u \in T : Sound(w, sus, u)
  /\ Mask(w)
  /\ Sorted(w)

\* A pending queue more urgent than the running thread comes with a request.
Noticed(w) ==
  w.running # NoThread /\ ~w.resched => \A p \in w.pending : w.prio[w.running] <= p

\* The thread that executes is RUNNING, or in the SelectThread call of its
\* OSSleepThread.
Executing ==
  running # NoThread
    => \/ state[running] = "running"
       \/ /\ parked[running] # NoQueue
          /\ state[running] = "waiting"
          /\ suspend[running] = 0
          /\ queueOf[running] = parked[running]

\* Before a thread runs, the default thread does not exist yet.
Booting ==
  running = NoThread
    => /\ state[DefaultThread] = "none"
       /\ parked[DefaultThread] = NoQueue
       /\ idleFlag = 0
       /\ current = NoThread

IInv ==
  /\ TypeOK
  /\ Consistent(Words, suspend, Threads)
  /\ Booting
  /\ fault = "none" =>
       /\ Noticed(Words)
       /\ Executing
       /\ waking # NoQueue => parked[Caller] = NoQueue

-----------------------------------------------------------------------------
(* The moves.                                                               *)

USE DEF Queues, Priorities, LowestPriority

\* A thread that belongs in no queue can be taken in hand: it is in no list.
LEMMA TakeUnlinked ==
  ASSUME NEW w, NEW sus, NEW t \in Threads, Consistent(w, sus, Threads),
         \A q \in Queues : ~Belongs(w, sus, t, q)
  PROVE  Consistent(w, sus, Threads \ {t})
BY DEF Consistent, Lists

\* ... and be put down again.
LEMMA PutUnlinked ==
  ASSUME NEW w, NEW sus, NEW t \in Threads, Consistent(w, sus, Threads \ {t}),
         \A q \in Queues : ~Belongs(w, sus, t, q), Sound(w, sus, t)
  PROVE  Consistent(w, sus, Threads)
BY DEF Consistent, Lists

\* The words v with the suspend counts sus2 differ from w and sus in nothing the
\* lists depend on, except for t.
SameBut(w, v, sus, sus2, t) ==
  /\ v.queues = w.queues
  /\ v.pending = w.pending
  /\ \A u \in Threads \ {t} :
       /\ v.state[u] = w.state[u]
       /\ v.prio[u] = w.prio[u]
       /\ v.queueOf[u] = w.queueOf[u]
       /\ sus2[u] = sus[u]
       /\ w.state[u] = "running" => v.running = w.running

\* While t is in hand its words and its suspend count may change; so may the
\* running and the current thread and the reschedule request.
LEMMA ChangeInHand ==
  ASSUME NEW w, NEW v \in WordsSet, NEW sus, NEW sus2, NEW t \in Threads,
         Consistent(w, sus, Threads \ {t}), SameBut(w, v, sus, sus2, t)
  PROVE  Consistent(v, sus2, Threads \ {t})
<1> USE DEF SameBut
<1>1. Lists(v, sus2, Threads \ {t})
  BY DEF Consistent, Lists, Belongs
<1>2. \A u \in Threads \ {t} : Sound(v, sus2, u)
  BY DEF Consistent, Sound
<1>3. Mask(v)
  BY DEF Consistent, Mask
<1>4. Sorted(v)
  <2> SUFFICES ASSUME NEW q \in WaitQueues,
                      NEW i \in DOMAIN v.queues[q], NEW j \in DOMAIN v.queues[q], i <= j
               PROVE  v.prio[v.queues[q][i]] <= v.prio[v.queues[q][j]]
    BY DEF Sorted, Ordered
  <2>1. w.queues[q][i] \in Threads \ {t} /\ w.queues[q][j] \in Threads \ {t}
    <3>1. Range(w.queues[q]) \subseteq Threads \ {t}
      BY DEF Consistent, Lists
    <3> QED BY <3>1 DEF Range
  <2>2. w.prio[w.queues[q][i]] <= w.prio[w.queues[q][j]]
    BY DEF Consistent, Sorted, Ordered
  <2> QED BY <2>1, <2>2
<1> QED BY <1>1, <1>2, <1>3, <1>4 DEF Consistent

\* RemoveFromQueue takes a linked thread in hand.
LEMMA TakeLinked ==
  ASSUME NEW w, NEW sus, NEW t \in Threads, Consistent(w, sus, Threads),
         \/ w.state[t] = "ready" /\ sus[t] = 0
         \/ w.state[t] = "waiting"
  PROVE  Consistent(RemoveFromQueue(w, t), sus, Threads \ {t})
<1> DEFINE q == w.queueOf[t]
           s == w.queues[q]
           i == Position(s, t)
           left == RemoveAt(s, i)
           r == RemoveFromQueue(w, t)
<1>1. w \in WordsSet /\ Lists(w, sus, Threads) /\ Sound(w, sus, t)
  BY DEF Consistent
<1>2. q \in Queues /\ Belongs(w, sus, t, q)
  BY <1>1 DEF Sound, Belongs
<1>3. s \in Seq(Threads) /\ Distinct(s) /\ t \in Range(s)
  BY <1>1, <1>2 DEF WordsSet, Lists
<1>4. i \in DOMAIN s /\ s[i] = t
  BY <1>3 DEF Position, Range
<1>5. DOMAIN s = 1 .. Len(s)
  BY <1>3, LenProperties
<1>6. left \in Seq(Threads) /\ Range(left) = Range(s) \ {t} /\ Distinct(left)
  BY <1>3, <1>4, <1>5, RemoveAtQueue
<1>7. r = [w EXCEPT !.queueOf[t] = NoQueue,
                    !.queues[q] = left,
                    !.pending = IF left = <<>> THEN @ \ {q} ELSE @]
  BY DEF RemoveFromQueue
<1> HIDE DEF left, i, r
<1>8. /\ r \in WordsSet
      /\ r.state = w.state /\ r.prio = w.prio /\ r.resched = w.resched
      /\ r.running = w.running /\ r.current = w.current
      /\ r.queueOf = [w.queueOf EXCEPT ![t] = NoQueue]
      /\ r.queues = [w.queues EXCEPT ![q] = left]
      /\ r.pending = IF left = <<>> THEN w.pending \ {q} ELSE w.pending
  BY <1>1, <1>2, <1>6, <1>7 DEF WordsSet
<1>9. Lists(r, sus, Threads \ {t})
  <2> SUFFICES ASSUME NEW k \in Queues
               PROVE  /\ Distinct(r.queues[k])
                      /\ Range(r.queues[k]) = {u \in Threads \ {t} : Belongs(r, sus, u, k)}
    BY DEF Lists
  <2>1. {u \in Threads \ {t} : Belongs(r, sus, u, k)}
          = {u \in Threads : Belongs(w, sus, u, k)} \ {t}
    BY <1>8, <1>1 DEF Belongs, WordsSet
  <2>2. CASE k = q
    BY <2>1, <2>2, <1>1, <1>2, <1>6, <1>8 DEF Lists, WordsSet
  <2>3. CASE k # q
    <3>1. ~Belongs(w, sus, t, k)
      BY <2>3, <1>1, <1>2, ConstantsAssumption DEF Belongs, Sound
    <3> QED BY <2>1, <2>3, <3>1, <1>1, <1>2, <1>8 DEF Lists, WordsSet
  <2> QED BY <2>2, <2>3
<1>10. \A u \in Threads \ {t} : Sound(r, sus, u)
  BY <1>8, <1>1 DEF Consistent, Sound, WordsSet
<1>11. Mask(r)
  <2>1. s # <<>>
    BY <1>4, <1>5
  <2>2. \A p \in Priorities : p # q => r.queues[p] = w.queues[p]
    BY <1>1, <1>8 DEF WordsSet
  <2>3. r.queues[q] = left
    BY <1>1, <1>2, <1>8 DEF WordsSet
  <2> QED BY <2>1, <2>2, <2>3, <1>8 DEF Consistent, Mask
<1>12. Sorted(r)
  <2> SUFFICES ASSUME NEW k \in WaitQueues PROVE Ordered(r.queues[k], w.prio)
    BY <1>8 DEF Sorted
  <2>1. Ordered(w.queues[k], w.prio)
    BY DEF Consistent, Sorted
  <2>2. CASE k = q
    BY <2>1, <2>2, <1>1, <1>3, <1>4, <1>5, <1>8, RemoveAtOrdered DEF left, WordsSet
  <2> QED BY <2>1, <2>2, <1>8, <1>1 DEF WordsSet
<1> QED BY <1>8, <1>9, <1>10, <1>11, <1>12 DEF Consistent, r

\* Linking the thread in hand: what both insertions do to the words.
LEMMA PutLinked ==
  ASSUME NEW w, NEW sus, NEW t \in Threads, Consistent(w, sus, Threads \ {t}),
         NEW q \in Queues, NEW s, NEW v \in WordsSet,
         s \in Seq(Threads), s # <<>>, Distinct(s), Range(s) = Range(w.queues[q]) \cup {t},
         q \in WaitQueues => Ordered(s, w.prio),
         v.state = w.state, v.prio = w.prio, v.running = w.running,
         v.queueOf = [w.queueOf EXCEPT ![t] = q],
         v.queues = [w.queues EXCEPT ![q] = s],
         v.pending = IF q \in Priorities THEN w.pending \cup {q} ELSE w.pending,
         Sound(v, sus, t), Belongs(v, sus, t, q)
  PROVE  Consistent(v, sus, Threads)
<1>1. w \in WordsSet /\ Lists(w, sus, Threads \ {t})
  BY DEF Consistent
<1>2. Lists(v, sus, Threads)
  <2> SUFFICES ASSUME NEW k \in Queues
               PROVE  /\ Distinct(v.queues[k])
                      /\ Range(v.queues[k]) = {u \in Threads : Belongs(v, sus, u, k)}
    BY DEF Lists
  <2>1. \A u \in Threads \ {t} : Belongs(v, sus, u, k) <=> Belongs(w, sus, u, k)
    BY <1>1 DEF Belongs, WordsSet
  <2>2. CASE k = q
    <3>1. v.queues[k] = s
      BY <2>2, <1>1 DEF WordsSet
    <3> QED BY <3>1, <2>1, <2>2, <1>1 DEF Lists
  <2>3. CASE k # q
    <3>1. v.queues[k] = w.queues[k]
      BY <2>3, <1>1 DEF WordsSet
    <3>2. ~Belongs(v, sus, t, k)
      BY <2>3, ConstantsAssumption DEF Belongs, Sound
    <3> QED BY <3>1, <3>2, <2>1, <1>1 DEF Lists
  <2> QED BY <2>2, <2>3
<1>3. \A u \in Threads : Sound(v, sus, u)
  BY <1>1 DEF Consistent, Sound, WordsSet
<1>4. Mask(v)
  <2>1. \A p \in Priorities : p # q => v.queues[p] = w.queues[p]
    BY <1>1 DEF WordsSet
  <2>2. v.queues[q] = s
    BY <1>1 DEF WordsSet
  <2> QED BY <2>1, <2>2 DEF Consistent, Mask
<1>5. Sorted(v)
  <2> SUFFICES ASSUME NEW k \in WaitQueues PROVE Ordered(v.queues[k], w.prio)
    BY DEF Sorted
  <2>1. Ordered(w.queues[k], w.prio)
    BY DEF Consistent, Sorted
  <2> QED BY <2>1, <1>1 DEF WordsSet
<1> QED BY <1>2, <1>3, <1>4, <1>5 DEF Consistent

\* The loop over the list stops at the first strictly less urgent thread.
LEMMA PlaceFound ==
  ASSUME NEW w, NEW q, NEW t \in Threads, w.queues[q] \in Seq(Threads), w.prio \in [Threads -> Nat]
  PROVE  LET s == w.queues[q]
             i == InsertionPoint(w, q, w.prio[t])
         IN  /\ i \in 1 .. Len(s) + 1
             /\ \A k \in 1 .. i - 1 : w.prio[s[k]] <= w.prio[t]
             /\ i <= Len(s) => w.prio[s[i]] > w.prio[t]
<1> DEFINE s == w.queues[q]
           i == InsertionPoint(w, q, w.prio[t])
           after == {k \in DOMAIN s : w.prio[s[k]] > w.prio[t]}
<1>2. s \in Seq(Threads) /\ w.prio \in [Threads -> Nat]
  OBVIOUS
<1>3. Len(s) \in Nat /\ DOMAIN s = 1 .. Len(s) /\ \A k \in DOMAIN s : s[k] \in Threads
  BY <1>2, LenProperties, ElementOfSeq
<1>4. i = IF after = {} THEN Len(s) + 1 ELSE Min(after)
  BY DEF InsertionPoint
<1>5. after # {} => Min(after) \in after /\ \A k \in after : Min(after) <= k
  <2>1. after \in SUBSET Nat
    BY <1>3
  <2> QED BY ONLY <2>1, MinProperties
<1> HIDE DEF i
<1>6. /\ i \in 1 .. Len(s) + 1
      /\ \A k \in 1 .. i - 1 : w.prio[s[k]] <= w.prio[t]
      /\ i <= Len(s) => w.prio[s[i]] > w.prio[t]
  <2>1. CASE after = {}
    <3>1. \A k \in 1 .. Len(s) : w.prio[s[k]] <= w.prio[t]
      BY <2>1, <1>2, <1>3
    <3>2. i = Len(s) + 1
      BY <2>1, <1>4
    <3> QED BY ONLY <3>1, <3>2, <1>3
  <2>2. CASE after # {}
    <3>1. i \in 1 .. Len(s) /\ w.prio[s[i]] > w.prio[t]
      BY <2>2, <1>3, <1>4, <1>5
    <3>2. ASSUME NEW k \in 1 .. i - 1 PROVE w.prio[s[k]] <= w.prio[t]
      <4>1. k \in DOMAIN s /\ ~(i <= k)
        BY <3>1, <1>3
      <4>2. k \notin after
        BY <4>1, <2>2, <1>4, <1>5
      <4> QED BY <4>1, <4>2, <1>2, <1>3
    <3> QED BY <3>1, <3>2
  <2> QED BY <2>1, <2>2
<1> QED BY <1>6 DEF i

\* InsertByPriority puts a thread into a list in priority order.
LEMMA PutByPriority ==
  ASSUME NEW w, NEW sus, NEW t \in Threads, Consistent(w, sus, Threads \ {t}),
         NEW q \in Queues,
         \/ w.state[t] = "waiting" /\ q \in WaitQueues
         \/ w.state[t] = "ready" /\ sus[t] = 0 /\ w.prio[t] = q,
         sus[t] = 0 => w.prio[t] \in Priorities,
         w.state[t] = "waiting" /\ sus[t] # 0 => w.prio[t] = LowestPriority
  PROVE  Consistent(InsertByPriority(w, q, t), sus, Threads)
<1> DEFINE s == w.queues[q]
           i == InsertionPoint(w, q, w.prio[t])
           a == InsertAt(s, i, t)
           v == InsertByPriority(w, q, t)
<1>1. w \in WordsSet /\ Lists(w, sus, Threads \ {t})
  BY DEF Consistent
<1>2. s \in Seq(Threads) /\ Distinct(s) /\ t \notin Range(s) /\ w.prio \in [Threads -> Nat]
  BY <1>1, ConstantsAssumption DEF WordsSet, Lists
<1>3. Len(s) \in Nat /\ DOMAIN s = 1 .. Len(s) /\ \A k \in DOMAIN s : s[k] \in Threads
  BY <1>2, LenProperties, ElementOfSeq
<1>6. /\ i \in 1 .. Len(s) + 1
      /\ \A k \in 1 .. i - 1 : w.prio[s[k]] <= w.prio[t]
      /\ i <= Len(s) => w.prio[s[i]] > w.prio[t]
  BY <1>2, PlaceFound
<1>7. v = [w EXCEPT !.queueOf[t] = q,
                    !.queues[q] = a,
                    !.pending = IF q \in Priorities THEN @ \cup {q} ELSE @]
  BY DEF InsertByPriority
<1> HIDE DEF i, v
<1>8. /\ a \in Seq(Threads) /\ a # <<>> /\ Distinct(a)
      /\ Range(a) = Range(s) \cup {t}
  BY <1>2, <1>6, InsertAtQueue
<1>9. q \in WaitQueues => Ordered(a, w.prio)
  <2> SUFFICES ASSUME q \in WaitQueues PROVE Ordered(a, w.prio)
    OBVIOUS
  <2>1. Ordered(s, w.prio)
    BY DEF Consistent, Sorted
  <2> QED BY <2>1, <1>2, <1>6, InsertAtOrdered
<1> HIDE DEF a
<1>10. /\ v \in WordsSet
       /\ v.state = w.state /\ v.prio = w.prio /\ v.resched = w.resched
       /\ v.running = w.running /\ v.current = w.current
       /\ v.queueOf = [w.queueOf EXCEPT ![t] = q]
       /\ v.queues = [w.queues EXCEPT ![q] = a]
       /\ v.pending = IF q \in Priorities THEN w.pending \cup {q} ELSE w.pending
  BY <1>1, <1>7, <1>8 DEF WordsSet
<1>11. Sound(v, sus, t) /\ Belongs(v, sus, t, q)
  BY <1>1, <1>10 DEF Sound, Belongs, WordsSet, Dead
<1>12. Consistent(v, sus, Threads)
  BY <1>8, <1>9, <1>10, <1>11, PutLinked
<1> QED BY <1>10, <1>12 DEF v

\* LinkOnRunQueue puts a READY thread at the tail of its run queue.
LEMMA PutOnRunQueue ==
  ASSUME NEW w, NEW sus, NEW t \in Threads, Consistent(w, sus, Threads \ {t}),
         w.state[t] = "ready", sus[t] = 0, w.prio[t] \in Priorities
  PROVE  /\ Consistent(LinkOnRunQueue(w, t), sus, Threads)
         /\ \A f \in {"state", "prio", "running", "current"} : LinkOnRunQueue(w, t)[f] = w[f]
         /\ LinkOnRunQueue(w, t).resched = TRUE
         /\ LinkOnRunQueue(w, t).queueOf = [w.queueOf EXCEPT ![t] = w.prio[t]]
         /\ LinkOnRunQueue(w, t).pending = w.pending \cup {w.prio[t]}
<1> DEFINE q == w.prio[t]
           s == w.queues[q]
           a == Append(s, t)
           v == LinkOnRunQueue(w, t)
<1>1. w \in WordsSet /\ Lists(w, sus, Threads \ {t}) /\ q \in Queues
  BY DEF Consistent
<1>2. s \in Seq(Threads) /\ Distinct(s) /\ t \notin Range(s)
  BY <1>1 DEF WordsSet, Lists
<1>3. /\ a \in Seq(Threads) /\ a # <<>> /\ Distinct(a)
      /\ Range(a) = Range(s) \cup {t}
  BY <1>2, AppendQueue
<1>4. v = [w EXCEPT !.queueOf[t] = q, !.queues[q] = a,
                    !.pending = @ \cup {q}, !.resched = TRUE]
  BY DEF LinkOnRunQueue
<1> HIDE DEF a, v
<1>5. /\ v \in WordsSet
      /\ v.state = w.state /\ v.prio = w.prio /\ v.resched = TRUE
      /\ v.running = w.running /\ v.current = w.current
      /\ v.queueOf = [w.queueOf EXCEPT ![t] = q]
      /\ v.queues = [w.queues EXCEPT ![q] = a]
      /\ v.pending = w.pending \cup {q}
  BY <1>1, <1>3, <1>4 DEF WordsSet
<1>6. Sound(v, sus, t) /\ Belongs(v, sus, t, q)
  BY <1>1, <1>5 DEF Sound, Belongs, WordsSet, Dead
<1>7. q \notin WaitQueues
  BY QueuesAssumption
<1>8. Consistent(v, sus, Threads)
  BY <1>1, <1>3, <1>5, <1>6, <1>7, PutLinked
<1> QED BY <1>5, <1>8 DEF v

\* The head of a list is a thread that belongs there, and of no other list.
LEMMA HeadBelongs ==
  ASSUME NEW w, NEW sus, Consistent(w, sus, Threads), NEW q \in Queues, w.queues[q] # <<>>
  PROVE  Head(w.queues[q]) \in Threads /\ Belongs(w, sus, Head(w.queues[q]), q)
<1>1. w.queues[q] \in Seq(Threads) /\ Distinct(w.queues[q])
  BY DEF Consistent, Lists, WordsSet
<1>2. Head(w.queues[q]) \in Range(w.queues[q])
  BY <1>1, TailQueue
<1> QED BY <1>2 DEF Consistent, Lists

\* The words v are w without t, the head of q; of t's own words nothing is said.
HeadTaken(w, q, t, v) ==
  /\ w.queues[q] # <<>>
  /\ t = Head(w.queues[q])
  /\ v \in WordsSet
  /\ v.queues = [w.queues EXCEPT ![q] = Tail(@)]
  /\ v.pending = IF Tail(w.queues[q]) = <<>> THEN w.pending \ {q} ELSE w.pending
  /\ v.prio = w.prio
  /\ \A u \in Threads \ {t} :
       /\ v.state[u] = w.state[u]
       /\ v.queueOf[u] = w.queueOf[u]
       /\ w.state[u] = "running" => v.running = w.running

\* Popping the head takes it in hand.
LEMMA TakeHead ==
  ASSUME NEW w, NEW sus, NEW t, Consistent(w, sus, Threads),
         NEW q \in Queues, NEW v, HeadTaken(w, q, t, v)
  PROVE  Consistent(v, sus, Threads \ {t})
<1> USE DEF HeadTaken
<1> DEFINE s == w.queues[q]
           r == Tail(s)
<1>1. w \in WordsSet /\ Lists(w, sus, Threads) /\ Belongs(w, sus, t, q) /\ t \in Threads
  BY HeadBelongs DEF Consistent
<1>2. s \in Seq(Threads) /\ Distinct(s)
  BY <1>1 DEF WordsSet, Lists
<1>3. r \in Seq(Threads) /\ Range(r) = Range(s) \ {t} /\ Distinct(r)
  BY <1>2, TailQueue
<1>4. v.queues[q] = r /\ \A k \in Queues \ {q} : v.queues[k] = w.queues[k]
  BY <1>1 DEF WordsSet
<1> HIDE DEF r
<1>5. Lists(v, sus, Threads \ {t})
  <2> SUFFICES ASSUME NEW k \in Queues
               PROVE  /\ Distinct(v.queues[k])
                      /\ Range(v.queues[k]) = {u \in Threads \ {t} : Belongs(v, sus, u, k)}
    BY DEF Lists
  <2>1. \A u \in Threads \ {t} : Belongs(v, sus, u, k) <=> Belongs(w, sus, u, k)
    BY <1>1 DEF Belongs, WordsSet
  <2>2. CASE k = q
    BY <2>1, <2>2, <1>1, <1>3, <1>4 DEF Lists
  <2>3. CASE k # q
    <3>1. ~Belongs(w, sus, t, k)
      BY <2>3, <1>1, ConstantsAssumption DEF Belongs, Sound, Consistent
    <3> QED BY <2>1, <2>3, <3>1, <1>1, <1>4 DEF Lists
  <2> QED BY <2>2, <2>3
<1>6. \A u \in Threads \ {t} : Sound(v, sus, u)
  BY <1>1 DEF Consistent, Sound, WordsSet
<1>7. Mask(v)
  BY <1>4, r = Tail(w.queues[q]) DEF Consistent, Mask, r
<1>8. Sorted(v)
  <2> SUFFICES ASSUME NEW k \in WaitQueues PROVE Ordered(v.queues[k], w.prio)
    BY DEF Sorted
  <2>1. Ordered(w.queues[k], w.prio)
    BY DEF Consistent, Sorted
  <2>2. CASE k = q
    BY <2>1, <2>2, <1>2, <1>4, TailOrdered DEF r
  <2> QED BY <2>1, <2>2, <1>4
<1> QED BY <1>5, <1>6, <1>7, <1>8 DEF Consistent

-----------------------------------------------------------------------------
(* SelectThread.                                                            *)

\* A preempted running thread is requeued; afterwards no thread is RUNNING.
LEMMA RequeuedConsistent ==
  ASSUME NEW w, NEW sus, Consistent(w, sus, Threads), w.running \in Threads
  PROVE  /\ Consistent(Requeued(w), sus, Threads)
         /\ \A u \in Threads : Requeued(w).state[u] # "running"
         /\ \A u \in Threads : Requeued(w).state[u] = "none" <=> w.state[u] = "none"
         /\ Requeued(w).running = w.running /\ Requeued(w).prio = w.prio
         /\ w.pending \subseteq Requeued(w).pending
<1> DEFINE t == w.running
           v == [w EXCEPT !.state[t] = "ready"]
<1>1. w \in WordsSet /\ \A u \in Threads : Sound(w, sus, u)
  BY DEF Consistent
<1>2. CASE w.state[t] # "running"
  BY <1>1, <1>2 DEF Requeued, Sound
<1>3. CASE w.state[t] = "running"
  <2>1. sus[t] = 0 /\ w.prio[t] \in Priorities
    BY <1>1, <1>3 DEF Sound
  <2>2. Consistent(w, sus, Threads \ {t})
    BY <1>3, TakeUnlinked DEF Belongs
  <2>3. /\ v \in WordsSet /\ v.state = [w.state EXCEPT ![t] = "ready"]
        /\ v.queues = w.queues /\ v.pending = w.pending /\ v.prio = w.prio
        /\ v.queueOf = w.queueOf /\ v.running = w.running
    BY <1>1 DEF WordsSet, ThreadStates
  <2> HIDE DEF v
  <2>4. Consistent(v, sus, Threads \ {t})
    <3>1. SameBut(w, v, sus, sus, t)
      BY <1>1, <2>3 DEF SameBut, WordsSet
    <3> QED BY <2>2, <2>3, <3>1, ChangeInHand
  <2>5. v.state[t] = "ready"
    BY <1>1, <2>3 DEF WordsSet
  <2>6. /\ Consistent(LinkOnRunQueue(v, t), sus, Threads)
        /\ \A f \in {"state", "prio", "running", "current"} : LinkOnRunQueue(v, t)[f] = v[f]
    <3>1. v.prio[t] \in Priorities
      BY <2>1, <2>3
    <3> QED BY ONLY <2>1, <2>4, <2>5, <3>1, w.running \in Threads, PutOnRunQueue
  <2>7. Requeued(w) = LinkOnRunQueue(v, t)
    BY <1>3 DEF Requeued, v
  <2>8. \A u \in Threads : /\ v.state[u] # "running"
                           /\ v.state[u] = "none" <=> w.state[u] = "none"
    BY <1>1, <1>3, <2>3 DEF Sound, WordsSet
  <2>9. w.pending \subseteq LinkOnRunQueue(v, t).pending
    BY <2>3 DEF LinkOnRunQueue, WordsSet
  <2>10. /\ Requeued(w).state = v.state /\ Requeued(w).prio = v.prio /\ Requeued(w).running = v.running
         /\ Consistent(Requeued(w), sus, Threads) /\ w.pending \subseteq Requeued(w).pending
    BY <2>6, <2>7, <2>9
  <2> QED BY <2>3, <2>8, <2>10
<1> QED BY <1>2, <1>3

\* Every thread in a run queue is READY, so the scan of the pending mask neither
\* drops a thread nor clears a bit: it only clears the reschedule request.
LEMMA ScanDropsNobody ==
  ASSUME NEW w, NEW sus, Consistent(w, sus, Threads), w.pending # {}
  PROVE  Scanned(w) = [w EXCEPT !.resched = FALSE]
<1>1. w \in WordsSet /\ w.pending \subseteq Priorities
  BY DEF Consistent, WordsSet
<1>2. \A p \in w.pending : DeadHeads(w, p) = 0
  <2> SUFFICES ASSUME NEW p \in w.pending PROVE DeadHeads(w, p) = 0
    OBVIOUS
  <2> DEFINE s == w.queues[p]
  <2>1. s \in Seq(Threads) /\ s # <<>>
    BY <1>1 DEF Consistent, Mask, WordsSet
  <2>2. \A i \in DOMAIN s : w.state[s[i]] \notin Dead
    <3> SUFFICES ASSUME NEW i \in DOMAIN s PROVE w.state[s[i]] \notin Dead
      OBVIOUS
    <3>1. s[i] \in Range(s)
      BY DEF Range
    <3>2. Belongs(w, sus, s[i], p)
      BY <3>1, <1>1 DEF Consistent, Lists
    <3> QED BY <3>2 DEF Belongs, Dead
  <2>3. {i \in DOMAIN s : \A j \in 1 .. i : w.state[s[j]] \in Dead} = {}
    <3>1. DOMAIN s = 1 .. Len(s) /\ Len(s) \in Nat
      BY <2>1, LenProperties
    <3> QED BY <2>2, <3>1
  <2> QED BY <2>3, FS_EmptySet DEF DeadHeads
<1>3. \A p \in w.pending : HasLive(w, p)
  <2> SUFFICES ASSUME NEW p \in w.pending PROVE 0 < Len(w.queues[p])
    BY <1>2 DEF HasLive
  <2>1. w.queues[p] \in Seq(Threads) /\ w.queues[p] # <<>>
    BY <1>1 DEF Consistent, Mask, WordsSet
  <2> QED BY <2>1, EmptySeq
<1> DEFINE live == {p \in w.pending : HasLive(w, p)}
           visited == {p \in w.pending : p <= Cntlzw(live)}
           Dropped(p) == {w.queues[p][i] : i \in 1 .. DeadHeads(w, p)}
<1>4. live = w.pending
  BY <1>3
<1>5. Cntlzw(live) \in w.pending /\ \A p \in w.pending : Cntlzw(live) <= p
  <2>1. w.pending \in SUBSET Nat
    BY <1>1, ConstantsAssumption
  <2>2. Min(w.pending) \in w.pending /\ \A p \in w.pending : Min(w.pending) <= p
    BY <2>1, MinProperties
  <2> QED BY <2>2, <1>4 DEF Cntlzw
<1>6. \A p \in visited : p \in w.pending
  OBVIOUS
<1>7. [q \in Queues |-> IF q \in visited
                        THEN SubSeq(w.queues[q], DeadHeads(w, q) + 1, Len(w.queues[q]))
                        ELSE w.queues[q]] = w.queues
  <2>1. \A q \in visited : SubSeq(w.queues[q], DeadHeads(w, q) + 1, Len(w.queues[q])) = w.queues[q]
    <3> SUFFICES ASSUME NEW q \in visited
                 PROVE  SubSeq(w.queues[q], DeadHeads(w, q) + 1, Len(w.queues[q])) = w.queues[q]
      OBVIOUS
    <3>1. w.queues[q] \in Seq(Threads) /\ DeadHeads(w, q) + 1 = 1
      BY <1>1, <1>2, <1>6 DEF WordsSet
    <3> QED BY <3>1, SubSeqFull
  <2> HIDE DEF visited
  <2> QED BY <2>1, <1>1 DEF WordsSet
<1>8. [t \in Threads |-> IF \E p \in visited : t \in Dropped(p) THEN NoQueue ELSE w.queueOf[t]]
        = w.queueOf
  <2>1. \A p \in visited : 1 .. DeadHeads(w, p) = {}
    BY <1>2, <1>6
  <2>2. \A p \in visited : Dropped(p) = {}
    BY <2>1
  <2> HIDE DEF visited, Dropped
  <2> QED BY <2>2, <1>1 DEF WordsSet
<1>9. {p \in w.pending : p >= Cntlzw(live)} = w.pending
  <2> HIDE DEF live
  <2> QED BY <1>5, <1>1, ConstantsAssumption
<1>10. Scanned(w) = [w EXCEPT
          !.queues = [q \in Queues |-> IF q \in visited
                        THEN SubSeq(w.queues[q], DeadHeads(w, q) + 1, Len(w.queues[q]))
                        ELSE w.queues[q]],
          !.queueOf = [t \in Threads |-> IF \E p \in visited : t \in Dropped(p) THEN NoQueue ELSE w.queueOf[t]],
          !.pending = {p \in w.pending : p >= Cntlzw(live)},
          !.resched = FALSE]
  BY Zenon DEF Scanned
<1> HIDE DEF live, visited, Dropped
<1> QED BY <1>1, <1>7, <1>8, <1>9, <1>10 DEF WordsSet

\* The switch: the next thread is the only RUNNING one, and nobody who stays queued
\* is more urgent.
LEMMA SwitchedConsistent ==
  ASSUME NEW w, NEW sus, Consistent(w, sus, Threads), w.pending # {},
         \A u \in Threads : w.state[u] # "running"
  PROVE  LET v == SwitchedToHead(w)
         IN  /\ Consistent(v, sus, Threads)
             /\ v.running \in Threads
             /\ v.state[v.running] = "running"
             /\ v.resched = w.resched
             /\ \A p \in v.pending : v.prio[v.running] <= p
             /\ \A p \in w.pending : v.prio[v.running] <= p
             /\ \A u \in Threads : v.state[u] = "none" <=> w.state[u] = "none"
<1> DEFINE p == Min(w.pending)
           s == w.queues[p]
           t == Head(s)
           v == SwitchedToHead(w)
<1>1. w \in WordsSet /\ w.pending \in SUBSET Priorities
  BY DEF Consistent, WordsSet
<1>2. p \in w.pending /\ \A k \in w.pending : p <= k
  BY <1>1, MinProperties, ConstantsAssumption
<1> HIDE DEF p
<1>3. p \in Priorities /\ s \in Seq(Threads) /\ s # <<>> /\ Distinct(s)
  BY <1>1, <1>2 DEF Consistent, Mask, WordsSet, Lists
<1>4. t \in Threads /\ Belongs(w, sus, t, p)
  BY <1>3, HeadBelongs
<1>5. w.state[t] = "ready" /\ sus[t] = 0 /\ w.prio[t] = p
  BY <1>3, <1>4, QueuesAssumption DEF Belongs, Consistent, Sound
<1>6. Tail(s) \in Seq(Threads) /\ (Len(s) = 1 <=> Tail(s) = <<>>)
  BY <1>3, TailQueue
<1>7. v = [w EXCEPT !.queues[p] = Tail(@),
                    !.pending = IF Len(s) = 1 THEN @ \ {p} ELSE @,
                    !.queueOf[t] = NoQueue, !.state[t] = "running",
                    !.running = t, !.current = t]
  BY DEF SwitchedToHead, p
<1> HIDE DEF v, t
<1>8. /\ v \in WordsSet
      /\ v.state = [w.state EXCEPT ![t] = "running"]
      /\ v.prio = w.prio
      /\ v.queueOf = [w.queueOf EXCEPT ![t] = NoQueue]
      /\ v.queues = [w.queues EXCEPT ![p] = Tail(@)]
      /\ v.pending = IF Tail(s) = <<>> THEN w.pending \ {p} ELSE w.pending
      /\ v.running = t /\ v.current = t /\ v.resched = w.resched
  BY <1>1, <1>3, <1>4, <1>6, <1>7 DEF WordsSet, ThreadStates
<1>9. Consistent(v, sus, Threads \ {t})
  <2>1. \A u \in Threads \ {t} :
           /\ v.state[u] = w.state[u]
           /\ v.queueOf[u] = w.queueOf[u]
           /\ w.state[u] = "running" => v.running = w.running
    BY <1>1, <1>8 DEF WordsSet
  <2>2. HeadTaken(w, p, t, v)
    BY <2>1, <1>3, <1>8 DEF HeadTaken, t
  <2>3. p \in Queues
    BY <1>3
  <2> QED BY ONLY <2>2, <2>3, Consistent(w, sus, Threads), TakeHead
<1>10. v.state[t] = "running"
  BY <1>1, <1>4, <1>8 DEF WordsSet
<1>11. Consistent(v, sus, Threads)
  <2>1. Sound(v, sus, t)
    BY <1>3, <1>5, <1>8, <1>10 DEF Sound, Dead
  <2>2. \A q \in Queues : ~Belongs(v, sus, t, q)
    BY <1>10 DEF Belongs
  <2> QED BY <1>4, <1>9, <2>1, <2>2, PutUnlinked
<1>12. /\ \A k \in v.pending : v.prio[v.running] <= k
       /\ \A k \in w.pending : v.prio[v.running] <= k
  BY <1>2, <1>5, <1>8
<1>13. \A u \in Threads : v.state[u] = "none" <=> w.state[u] = "none"
  BY <1>1, <1>5, <1>8 DEF WordsSet
<1> QED BY <1>4, <1>8, <1>10, <1>11, <1>12, <1>13 DEF v

\* A thread was selected: it is RUNNING and nobody queued is more urgent.
Switched == running \in Threads /\ state[running] = "running" /\ \A p \in pending : prio[running] <= p

\* Publishing words that make up a state makes them the next state's words.
LEMMA PublishWords ==
  ASSUME NEW w \in WordsSet, Publish(w)
  PROVE  Words' = w
BY DEF Publish, Words, WordsSet

\* What SelectThread guarantees: consistent lists, and one of three outcomes.
LEMMA SelectThreadStep ==
  ASSUME NEW w, NEW sus, NEW force, Consistent(w, sus, Threads), SelectThread(force, w)
  PROVE  /\ Consistent(Words', sus, Threads)
         /\ \/ Declines(force, w) /\ Words' = w /\ fault' = fault
            \/ fault' = "SELECTTHREAD_IDLE_POLL" /\ running' = w.running /\ running' # NoThread
            \/ /\ fault' = fault /\ Switched' /\ ~Declines(force, w)
               /\ \A p \in w.pending : prio'[running'] <= p
         /\ \A u \in Threads : state'[u] = "none" <=> w.state[u] = "none"
<1>1. w \in WordsSet
  BY DEF Consistent
<1>2. CASE Declines(force, w)
  BY <1>1, <1>2, PublishWords DEF SelectThread, Publish
<1>3. CASE ~Declines(force, w)
  <2> DEFINE r == Requeued(w)
  <2>1. w.running \in Threads
    BY <1>1, <1>3 DEF Declines, WordsSet
  <2>2. /\ Consistent(r, sus, Threads) /\ r.running = w.running
        /\ \A u \in Threads : r.state[u] # "running"
        /\ \A u \in Threads : r.state[u] = "none" <=> w.state[u] = "none"
        /\ w.pending \subseteq r.pending
    BY <2>1, RequeuedConsistent
  <2>3. r \in WordsSet
    BY <2>2 DEF Consistent
  <2>4. CASE r.pending = {}
    <3>1. Publish(r) /\ fault' = "SELECTTHREAD_IDLE_POLL"
      BY <1>3, <2>4 DEF SelectThread
    <3>2. Words' = r
      BY <3>1, <2>3, PublishWords
    <3>3. running' = r.running /\ state' = r.state
      BY <3>1 DEF Publish
    <3> QED BY <2>1, <2>2, <3>1, <3>2, <3>3, ConstantsAssumption
  <2>5. CASE r.pending # {}
    <3> DEFINE c == [r EXCEPT !.resched = FALSE]
               v == SwitchedToHead(c)
    <3>1. Scanned(r) = c
      BY <2>2, <2>5, ScanDropsNobody
    <3>2. /\ c \in WordsSet /\ c.state = r.state /\ c.prio = r.prio /\ c.queueOf = r.queueOf
          /\ c.queues = r.queues /\ c.pending = r.pending /\ c.running = r.running
      BY <2>3 DEF WordsSet
    <3>3. Consistent(c, sus, Threads)
      BY <2>2, <3>2 DEF Consistent, Lists, Belongs, Sound, Mask, Sorted
    <3>4. Selected(w) = v
      BY <2>5, <3>1, <3>2 DEF Selected
    <3>5. Publish(v) /\ fault' = fault
      BY <1>3, <2>5, <3>4 DEF SelectThread
    <3> HIDE DEF c
    <3>6. /\ Consistent(v, sus, Threads)
          /\ v.running \in Threads
          /\ v.state[v.running] = "running"
          /\ \A p \in v.pending : v.prio[v.running] <= p
          /\ \A p \in c.pending : v.prio[v.running] <= p
          /\ \A u \in Threads : v.state[u] = "none" <=> c.state[u] = "none"
      BY <2>2, <2>5, <3>2, <3>3, SwitchedConsistent
    <3> HIDE DEF v
    <3>7. Words' = v
      BY <3>5, <3>6, PublishWords DEF Consistent
    <3>8. running' = v.running /\ state' = v.state /\ prio' = v.prio /\ pending' = v.pending
      BY <3>5 DEF Publish
    <3>9. /\ \A u \in Threads : state'[u] = "none" <=> w.state[u] = "none"
          /\ \A p \in w.pending : prio'[running'] <= p
      BY <2>2, <3>2, <3>6, <3>8
    <3> QED BY <1>3, <3>5, <3>6, <3>7, <3>8, <3>9 DEF Switched
  <2> QED BY <2>4, <2>5
<1> QED BY <1>2, <1>3

-----------------------------------------------------------------------------
(* First come, first served.                                                *)

\* From the words W to the words w: a thread that stays in a queue with its priority
\* stays before those of its priority that it was before, and before newcomers.
KeepsOrder(W, w) ==
  \A q \in Queues :
    \A u \in Range(W.queues[q]) \cap Range(w.queues[q]), t \in Range(w.queues[q]) :
      /\ u # t
      /\ w.prio[u] = W.prio[u]
      /\ w.prio[t] = w.prio[u]
      /\ ~Before(W.queues[q], t, u)
      => Before(w.queues[q], u, t)

LEMMA OrderStarts ==
  ASSUME NEW w \in WordsSet
  PROVE  KeepsOrder(w, w)
BY BeforeTotal DEF KeepsOrder, WordsSet

\* The lists stay, and so do their members' priorities.
LEMMA OrderSame ==
  ASSUME NEW W, NEW w, NEW v, KeepsOrder(W, w), v.queues = w.queues,
         \A q \in Queues : \A u \in Range(w.queues[q]) : v.prio[u] = w.prio[u]
  PROVE  KeepsOrder(W, v)
BY DEF KeepsOrder

\* What happens to a thread in hand disturbs no list.
LEMMA OrderInHand ==
  ASSUME NEW W, NEW w, NEW v, NEW sus, NEW sus2, NEW t \in Threads,
         Consistent(w, sus, Threads \ {t}), KeepsOrder(W, w), SameBut(w, v, sus, sus2, t)
  PROVE  KeepsOrder(W, v)
<1>1. \A q \in Queues : \A u \in Range(w.queues[q]) : u \in Threads \ {t}
  BY DEF Consistent, Lists
<1> QED BY <1>1, OrderSame DEF SameBut

\* One list changes: what is to be shown of it.
LEMMA OrderChanged ==
  ASSUME NEW W, NEW w \in WordsSet, NEW v, KeepsOrder(W, w), NEW q \in Queues, NEW s,
         v.queues = [w.queues EXCEPT ![q] = s], v.prio = w.prio,
         \A u \in Range(W.queues[q]) \cap Range(s), t \in Range(s) :
           u # t /\ w.prio[u] = W.prio[u] /\ w.prio[t] = w.prio[u] /\ ~Before(W.queues[q], t, u)
           => Before(s, u, t)
  PROVE  KeepsOrder(W, v)
<1> SUFFICES ASSUME NEW k \in Queues,
                    NEW u \in Range(W.queues[k]) \cap Range(v.queues[k]),
                    NEW t \in Range(v.queues[k]),
                    u # t, v.prio[u] = W.prio[u], v.prio[t] = v.prio[u],
                    ~Before(W.queues[k], t, u)
             PROVE  Before(v.queues[k], u, t)
  BY DEF KeepsOrder
<1>1. CASE k = q
  <2>1. v.queues[k] = s
    BY <1>1 DEF WordsSet
  <2> QED BY <1>1, <2>1
<1>2. CASE k # q
  <2>1. v.queues[k] = w.queues[k]
    BY <1>2 DEF WordsSet
  <2> QED BY <2>1 DEF KeepsOrder
<1> QED BY <1>1, <1>2

\* Removing disturbs nobody else.
LEMMA OrderRemoved ==
  ASSUME NEW W, NEW w, NEW sus, NEW t \in Threads, Consistent(w, sus, Threads),
         \/ w.state[t] = "ready" /\ sus[t] = 0
         \/ w.state[t] = "waiting",
         KeepsOrder(W, w)
  PROVE  KeepsOrder(W, RemoveFromQueue(w, t))
<1> DEFINE q == w.queueOf[t]
           s == w.queues[q]
           i == Position(s, t)
           left == RemoveAt(s, i)
           r == RemoveFromQueue(w, t)
<1>1. w \in WordsSet /\ Lists(w, sus, Threads) /\ Sound(w, sus, t)
  BY DEF Consistent
<1>2. q \in Queues /\ Belongs(w, sus, t, q)
  BY <1>1 DEF Sound, Belongs
<1>3. s \in Seq(Threads) /\ Distinct(s) /\ t \in Range(s)
  BY <1>1, <1>2 DEF WordsSet, Lists
<1>4. i \in DOMAIN s /\ s[i] = t
  BY <1>3 DEF Position, Range
<1>5. DOMAIN s = 1 .. Len(s)
  BY <1>3, LenProperties
<1>6. Range(left) = Range(s) \ {t}
  BY <1>3, <1>4, <1>5, RemoveAtQueue
<1>7. r.queues = [w.queues EXCEPT ![q] = left] /\ r.prio = w.prio
  BY <1>1 DEF RemoveFromQueue, WordsSet
<1>8. \A a, b : Before(s, a, b) /\ a # t /\ b # t => Before(left, a, b)
  BY <1>3, <1>4, <1>5, RemoveAtBefore
<1>9. ASSUME NEW u \in Range(W.queues[q]) \cap Range(left), NEW b \in Range(left),
             u # b, w.prio[u] = W.prio[u], w.prio[b] = w.prio[u], ~Before(W.queues[q], b, u)
      PROVE  Before(left, u, b)
  <2>1. u \in Range(s) /\ b \in Range(s) /\ u # t /\ b # t
    BY <1>6
  <2>2. Before(s, u, b)
    BY <1>2, <1>9, <2>1 DEF KeepsOrder
  <2> QED BY <1>8, <2>1, <2>2
<1> HIDE DEF left, i, s, q, r
<1> QED BY <1>1, <1>2, <1>7, <1>9, OrderChanged DEF s, r

\* ... nor does popping the head.
LEMMA OrderPopped ==
  ASSUME NEW W, NEW w \in WordsSet, NEW v, KeepsOrder(W, w), NEW q \in Queues,
         w.queues[q] # <<>>, Distinct(w.queues[q]),
         v.queues = [w.queues EXCEPT ![q] = Tail(@)], v.prio = w.prio
  PROVE  KeepsOrder(W, v)
<1> DEFINE s == w.queues[q]
           r == Tail(s)
<1>1. s \in Seq(Threads) /\ Range(r) = Range(s) \ {Head(s)}
  BY TailQueue DEF WordsSet
<1>2. \A a, b : Before(s, a, b) /\ a # Head(s) => Before(r, a, b)
  BY <1>1, TailBefore
<1>4. v.queues = [w.queues EXCEPT ![q] = r]
  OBVIOUS
<1> HIDE DEF r
<1>3. ASSUME NEW u \in Range(W.queues[q]) \cap Range(r), NEW b \in Range(r),
             u # b, w.prio[u] = W.prio[u], w.prio[b] = w.prio[u], ~Before(W.queues[q], b, u)
      PROVE  Before(r, u, b)
  <2>1. u \in Range(s) /\ b \in Range(s) /\ u # Head(s)
    BY <1>1
  <2>2. Before(s, u, b)
    BY <1>3, <2>1 DEF KeepsOrder
  <2> QED BY <1>2, <2>1, <2>2
<1>5. \A u \in Range(W.queues[q]) \cap Range(r), b \in Range(r) :
        u # b /\ w.prio[u] = W.prio[u] /\ w.prio[b] = w.prio[u] /\ ~Before(W.queues[q], b, u)
        => Before(r, u, b)
  BY <1>3
<1> QED BY ONLY <1>4, <1>5, KeepsOrder(W, w), v.prio = w.prio, w \in WordsSet, q \in Queues, OrderChanged

\* A newcomer: it was not in the queue, or not with this priority.
IsNew(W, w, q, t) == t \notin Range(W.queues[q]) \/ w.prio[t] # W.prio[t]

\* Every list is in priority order, a run queue because all its threads have one.
LEMMA AllOrdered ==
  ASSUME NEW w, NEW sus, NEW T \in SUBSET Threads, Consistent(w, sus, T), NEW q \in Queues
  PROVE  Ordered(w.queues[q], w.prio)
<1>1. CASE q \in WaitQueues
  BY <1>1 DEF Consistent, Sorted
<1>2. CASE q \in Priorities
  <2>1. \A u \in Range(w.queues[q]) : w.prio[u] = q
    <3> SUFFICES ASSUME NEW u \in Range(w.queues[q]) PROVE w.prio[u] = q
      OBVIOUS
    <3>1. u \in T /\ Belongs(w, sus, u, q) /\ Sound(w, sus, u)
      BY DEF Consistent, Lists
    <3> QED BY <1>2, <3>1, QueuesAssumption DEF Belongs, Sound
  <2>2. q <= q
    BY <1>2, QueuesAssumption
  <2> QED BY <2>1, <2>2 DEF Ordered, Range
<1> QED BY <1>1, <1>2

\* InsertByPriority puts a newcomer behind its equals.
LEMMA OrderInserted ==
  ASSUME NEW W, NEW w, NEW sus, NEW t \in Threads, Consistent(w, sus, Threads \ {t}),
         NEW q \in Queues, KeepsOrder(W, w), IsNew(W, w, q, t)
  PROVE  KeepsOrder(W, InsertByPriority(w, q, t))
<1> DEFINE s == w.queues[q]
           i == InsertionPoint(w, q, w.prio[t])
           a == InsertAt(s, i, t)
           v == InsertByPriority(w, q, t)
<1>1. w \in WordsSet /\ s \in Seq(Threads) /\ w.prio \in [Threads -> Nat] /\ Ordered(s, w.prio)
  <2>1. Ordered(s, w.prio)
    BY AllOrdered
  <2>2. w \in WordsSet /\ s \in Seq(Threads)
    BY DEF Consistent, WordsSet
  <2>3. w.prio \in [Threads -> Nat]
    BY <2>2, QueuesAssumption DEF WordsSet
  <2> QED BY <2>1, <2>2, <2>3
<1>2. Len(s) \in Nat /\ DOMAIN s = 1 .. Len(s) /\ \A k \in DOMAIN s : s[k] \in Threads
  BY <1>1, LenProperties, ElementOfSeq
<1>3. i \in 1 .. Len(s) + 1 /\ (i <= Len(s) => w.prio[s[i]] > w.prio[t])
  BY <1>1, PlaceFound
<1>4. v.queues = [w.queues EXCEPT ![q] = a] /\ v.prio = w.prio
  BY <1>1 DEF InsertByPriority, WordsSet
<1> HIDE DEF i, v
<1>5. /\ Range(a) = Range(s) \cup {t}
      /\ \A b, c : Before(s, b, c) => Before(a, b, c)
      /\ \A k \in DOMAIN s : k < i => Before(a, s[k], t)
  <2>1. s \in Seq(Threads) /\ i \in 1 .. Len(s) + 1
    BY <1>1, <1>3
  <2> HIDE DEF s
  <2>2. Range(a) = Range(s) \cup {t}
    BY <2>1, InsertAtQueue
  <2>3. /\ \A b, c : Before(s, b, c) => Before(a, b, c)
        /\ \A k \in DOMAIN s : k < i => Before(a, s[k], t)
    BY <2>1, InsertAtBefore
  <2> QED BY <2>2, <2>3
<1>6. ASSUME NEW u \in Range(s), w.prio[u] = w.prio[t]
      PROVE  Before(a, u, t)
  <2>1. PICK k \in DOMAIN s : s[k] = u
    BY DEF Range
  <2>2. k < i
    <3> SUFFICES ASSUME ~(k < i) PROVE FALSE
      OBVIOUS
    <3>1. i \in DOMAIN s /\ i <= k /\ w.prio[s[i]] > w.prio[t]
      BY <1>2, <1>3
    <3>2. w.prio[s[i]] <= w.prio[u]
      BY <1>1, <2>1, <3>1 DEF Ordered
    <3>3. w.prio[s[i]] \in Nat /\ w.prio[t] \in Nat
      BY <1>1, <1>2, <3>1
    <3> QED BY ONLY <3>1, <3>2, <3>3, w.prio[u] = w.prio[t]
  <2> QED BY <1>5, <2>1, <2>2
<1> HIDE DEF a
<1>7. ASSUME NEW u \in Range(W.queues[q]) \cap Range(a), NEW b \in Range(a),
             u # b, w.prio[u] = W.prio[u], w.prio[b] = w.prio[u], ~Before(W.queues[q], b, u)
      PROVE  Before(a, u, b)
  <2>1. u \in Range(s)
    BY <1>5, <1>7 DEF IsNew
  <2>2. CASE b = t
    BY <1>6, <1>7, <2>1, <2>2
  <2>3. CASE b # t
    BY <1>5, <1>7, <2>1, <2>3 DEF KeepsOrder
  <2> QED BY <2>2, <2>3
<1>8. KeepsOrder(W, v)
  BY ONLY <1>1, <1>4, <1>7, KeepsOrder(W, w), q \in Queues, OrderChanged
<1> QED BY <1>8 DEF v

\* LinkOnRunQueue puts a newcomer behind everyone.
LEMMA OrderLinked ==
  ASSUME NEW W, NEW w \in WordsSet, NEW t \in Threads, w.prio[t] \in Priorities,
         KeepsOrder(W, w), IsNew(W, w, w.prio[t], t)
  PROVE  KeepsOrder(W, LinkOnRunQueue(w, t))
<1> DEFINE q == w.prio[t]
           s == w.queues[q]
           a == Append(s, t)
           v == LinkOnRunQueue(w, t)
<1>1. s \in Seq(Threads) /\ q \in Queues
  BY DEF WordsSet
<1>2. v.queues = [w.queues EXCEPT ![q] = a] /\ v.prio = w.prio
  BY DEF LinkOnRunQueue, WordsSet
<1> HIDE DEF v
<1>3. /\ Range(a) = Range(s) \cup {t}
      /\ \A b, c : Before(s, b, c) => Before(a, b, c)
      /\ \A b \in Range(s) : Before(a, b, t)
  BY <1>1, AppendQueue, AppendBefore
<1> HIDE DEF a
<1>4. ASSUME NEW u \in Range(W.queues[q]) \cap Range(a), NEW b \in Range(a),
             u # b, w.prio[u] = W.prio[u], w.prio[b] = w.prio[u], ~Before(W.queues[q], b, u)
      PROVE  Before(a, u, b)
  <2>1. u \in Range(s)
    BY <1>3, <1>4 DEF IsNew
  <2>2. CASE b = t
    BY <1>3, <2>1, <2>2
  <2>3. CASE b # t
    BY <1>1, <1>3, <1>4, <2>1, <2>3 DEF KeepsOrder
  <2> QED BY <2>2, <2>3
<1> QED BY <1>1, <1>2, <1>4, OrderChanged DEF v

\* SelectThread: the running thread, if it is requeued, was in no queue.
LEMMA OrderSelected ==
  ASSUME NEW W, NEW w, NEW sus, NEW force, Consistent(w, sus, Threads), KeepsOrder(W, w),
         w.running \in Threads /\ w.state[w.running] = "running"
           => \A q \in Queues : w.running \notin Range(W.queues[q]),
         SelectThread(force, w)
  PROVE  KeepsOrder(W, Words')
<1>1. w \in WordsSet
  BY DEF Consistent
<1>2. CASE Declines(force, w)
  BY <1>1, <1>2, PublishWords DEF SelectThread
<1>3. CASE ~Declines(force, w)
  <2> DEFINE r == Requeued(w)
             t == w.running
             c == [r EXCEPT !.resched = FALSE]
             v == SwitchedToHead(c)
  <2>1. t \in Threads
    BY <1>1, <1>3 DEF Declines, WordsSet
  <2>2. /\ Consistent(r, sus, Threads) /\ r \in WordsSet
        /\ \A u \in Threads : r.state[u] # "running"
    BY <2>1, RequeuedConsistent DEF Consistent
  <2>3. KeepsOrder(W, r)
    <3>1. CASE w.state[t] = "running"
      <4> DEFINE x == [w EXCEPT !.state[t] = "ready"]
      <4>1. /\ x \in WordsSet /\ x.queues = w.queues /\ x.prio = w.prio
        BY <1>1 DEF WordsSet, ThreadStates
      <4>2. w.prio[t] \in Priorities
        BY <2>1, <3>1 DEF Consistent, Sound
      <4>3. r = LinkOnRunQueue(x, t)
        BY <3>1 DEF Requeued
      <4> HIDE DEF x, r
      <4>4. KeepsOrder(W, x)
        BY <4>1, OrderSame
      <4>5. IsNew(W, x, x.prio[t], t) /\ x.prio[t] \in Priorities
        BY <2>1, <3>1, <4>1, <4>2 DEF IsNew
      <4> QED BY <2>1, <4>1, <4>3, <4>4, <4>5, OrderLinked
    <3>2. CASE w.state[t] # "running"
      BY <3>2 DEF Requeued
    <3> QED BY <3>1, <3>2
  <2>4. CASE r.pending = {}
    <3>1. Publish(r)
      BY <1>3, <2>4 DEF SelectThread
    <3>2. Words' = r
      BY <3>1, <2>2, PublishWords
    <3> QED BY <2>3, <3>2
  <2>5. CASE r.pending # {}
    <3>1. Scanned(r) = c
      BY <2>2, <2>5, ScanDropsNobody
    <3> HIDE DEF r
    <3>2. /\ c \in WordsSet /\ c.state = r.state /\ c.prio = r.prio /\ c.queueOf = r.queueOf
          /\ c.queues = r.queues /\ c.pending = r.pending /\ c.running = r.running
      BY <2>2 DEF WordsSet
    <3>3. Consistent(c, sus, Threads)
      BY <2>2, <3>2 DEF Consistent, Lists, Belongs, Sound, Mask, Sorted
    <3>4. Publish(v)
      BY <1>3, <2>5, <3>1, <3>2 DEF SelectThread, Selected, r
    <3> HIDE DEF c
    <3>5. v \in WordsSet
      BY <2>2, <2>5, <3>2, <3>3, SwitchedConsistent DEF Consistent
    <3>6. Words' = v
      BY <3>4, <3>5, PublishWords
    <3> DEFINE p == Min(c.pending)
    <3>7. p \in c.pending
      BY <2>5, <3>2, MinProperties, QueuesAssumption DEF WordsSet
    <3>8. v.queues = [c.queues EXCEPT ![p] = Tail(@)] /\ v.prio = c.prio
      BY <3>2 DEF SwitchedToHead, WordsSet
    <3> HIDE DEF v, p
    <3>9. p \in Queues /\ c.queues[p] # <<>> /\ Distinct(c.queues[p])
      BY <3>2, <3>3, <3>7 DEF Consistent, Mask, Lists, WordsSet
    <3>10. KeepsOrder(W, c)
      BY <2>3, <3>2, OrderSame
    <3> QED BY <3>2, <3>6, <3>8, <3>9, <3>10, OrderPopped
  <2> QED BY <2>4, <2>5
<1> QED BY <1>2, <1>3

-----------------------------------------------------------------------------
(* The actions.                                                             *)

\* The types of what SelectThread does not touch.
OtherTypes ==
  /\ suspend \in [Threads -> Nat]
  /\ base \in [Threads -> Priorities]
  /\ threadList \in Seq(Threads)
  /\ idleFlag \in Nat
  /\ parked \in [Threads -> WaitQueues \cup {NoQueue}]
  /\ waking \in WaitQueues \cup {NoQueue}
  /\ fault \in {"none", "SELECTTHREAD_IDLE_POLL", "OSRESUMETHREAD_RUNNING_RECOVERY"}

LEMMA TypesSplit == TypeOK <=> Words \in WordsSet /\ OtherTypes
<1>1. TypeOK => Words \in WordsSet /\ OtherTypes
  BY DEF TypeOK, OtherTypes, Words, WordsSet
<1>2. Words \in WordsSet /\ OtherTypes => TypeOK
  BY DEF TypeOK, OtherTypes, Words, WordsSet
<1> QED BY <1>1, <1>2

LEMMA InitIInv == Init => IInv
<1> SUFFICES ASSUME Init PROVE IInv
  OBVIOUS
<1>1. <<>> \in Seq(Threads)
  BY EmptySeq
<1>2. TypeOK
  <2>1. 0 \in Priorities /\ 0 \in 0 .. LowestPriority
    BY QueuesAssumption
  <2>2. queues \in [Queues -> Seq(Threads)] /\ threadList \in Seq(Threads)
    BY <1>1 DEF Init
  <2>3. state \in [Threads -> ThreadStates]
    BY DEF Init, ThreadStates, Dead
  <2> QED BY <2>1, <2>2, <2>3 DEF Init, TypeOK
<1>3. Words \in WordsSet
  BY <1>2, TypesSplit
<1>4. Lists(Words, suspend, Threads)
  <2> SUFFICES ASSUME NEW q \in Queues
               PROVE  /\ Distinct(Words.queues[q])
                      /\ Range(Words.queues[q]) = {u \in Threads : Belongs(Words, suspend, u, q)}
    BY DEF Lists
  <2>1. Words.queues[q] = <<>> /\ DOMAIN <<>> = {}
    BY DEF Init, Words
  <2>2. \A u \in Threads : ~Belongs(Words, suspend, u, q)
    BY DEF Init, Words, Belongs
  <2> QED BY <2>1, <2>2 DEF Distinct, Range
<1>5. \A u \in Threads : Sound(Words, suspend, u)
  BY QueuesAssumption DEF Init, Words, Sound
<1>6. Mask(Words) /\ Noticed(Words)
  BY DEF Init, Words, Mask, Noticed
<1>7. Sorted(Words)
  <2>1. \A q \in WaitQueues : Words.queues[q] = <<>> /\ DOMAIN <<>> = {}
    BY DEF Init, Words
  <2> QED BY <2>1 DEF Sorted, Ordered
<1>8. Booting
  BY ConstantsAssumption DEF Init, Booting
<1> QED BY <1>2, <1>3, <1>4, <1>5, <1>6, <1>7, <1>8 DEF IInv, Consistent, Executing, Init

\* A handler that ends in SelectThread keeps the invariant, if the words it hands
\* over are consistent and do for the case that nothing is switched.
LEMMA AfterSelectThread ==
  ASSUME fault = "none", NEW w, NEW force,
         Consistent(w, suspend', Threads), Noticed(w),
         SelectThread(force, w), OtherTypes', waking' = NoQueue,
         Declines(force, w) /\ Words' = w => Executing' /\ Booting'
  PROVE  IInv'
<1>1. /\ Consistent(Words', suspend', Threads)
      /\ \/ Declines(force, w) /\ Words' = w /\ fault' = fault
         \/ fault' = "SELECTTHREAD_IDLE_POLL" /\ running' = w.running /\ running' # NoThread
         \/ fault' = fault /\ Switched'
  BY SelectThreadStep
<1>2. TypeOK'
  <2>1. Words' \in WordsSet
    BY <1>1 DEF Consistent
  <2> QED BY <2>1, TypesSplit DEF TypeOK, OtherTypes, Words, WordsSet
<1>3. CASE Declines(force, w) /\ Words' = w /\ fault' = fault
  BY <1>1, <1>2, <1>3 DEF IInv
<1>4. CASE fault' = "SELECTTHREAD_IDLE_POLL" /\ running' # NoThread
  BY <1>1, <1>2, <1>4 DEF IInv, Booting
<1>5. CASE Switched'
  BY <1>1, <1>2, <1>5, ConstantsAssumption DEF IInv, Booting, Executing, Switched, Noticed, Words
<1> QED BY <1>1, <1>3, <1>4, <1>5

LEMMA AfterReschedule ==
  ASSUME fault = "none", NEW w,
         Consistent(w, suspend', Threads), Noticed(w),
         Reschedule(w), OtherTypes', waking' = NoQueue,
         (w.resched => Declines(FALSE, w)) /\ Words' = w => Executing' /\ Booting'
  PROVE  IInv'
<1>1. CASE w.resched
  BY <1>1, AfterSelectThread DEF Reschedule
<1>2. CASE ~w.resched
  <2>1. Publish(w) /\ fault' = fault
    BY <1>2 DEF Reschedule
  <2>2. Words' = w /\ w \in WordsSet
    BY <2>1, PublishWords DEF Consistent
  <2>3. TypeOK'
    BY <2>2 DEF TypeOK, OtherTypes, Words, WordsSet
  <2> QED BY <1>2, <2>1, <2>2, <2>3 DEF IInv
<1> QED BY <1>1, <1>2

\* Steps that leave the lists and the threads' words alone.
LEMMA QuietStep ==
  ASSUME IInv, UNCHANGED <<state, suspend, prio, queueOf, queues, pending, resched, running>>,
         current' \in Threads \cup {NoThread, ExceptionContext}, OtherTypes', Booting',
         fault' = fault,
         fault = "none" => Executing' /\ (waking' # NoQueue => parked'[Caller] = NoQueue)
  PROVE  IInv'
<1>1. Words \in WordsSet /\ Consistent(Words, suspend, Threads)
  BY TypesSplit DEF IInv
<1>2. Words' = [Words EXCEPT !.current = current']
  BY DEF Words
<1>3. Words' \in WordsSet
  BY <1>1, <1>2 DEF WordsSet
<1>4. Consistent(Words', suspend', Threads)
  BY <1>1, <1>3 DEF Consistent, Lists, Belongs, Sound, Mask, Sorted, Words
<1>5. fault = "none" => Noticed(Words')
  BY DEF IInv, Noticed, Words
<1>6. TypeOK'
  BY <1>3 DEF TypeOK, OtherTypes, Words, WordsSet
<1> QED BY <1>4, <1>5, <1>6 DEF IInv, Caller

\* In guest code the running thread is RUNNING; so it is in no queue.
LEMMA GuestRunning ==
  ASSUME IInv, InGuest
  PROVE  /\ fault = "none" /\ waking = NoQueue /\ parked[Caller] = NoQueue
         /\ running # NoThread => state[running] = "running" /\ suspend[running] = 0
         /\ running = NoThread => \A t \in Threads : state[t] # "running"
         /\ Noticed(Words)
<1>1. \A t \in Threads : Sound(Words, suspend, t)
  BY DEF IInv, Consistent
<1>2. running \in Threads \cup {NoThread}
  BY DEF IInv, TypeOK
<1> QED BY <1>1, <1>2, ConstantsAssumption DEF IInv, InGuest, Executing, Caller, Sound, Words

LEMMA QuietActions ==
  ASSUME IInv,
         \/ SleepRefused \/ SleepReturns \/ (\E q \in WaitQueues : WakeupThread(q))
         \/ DisableScheduler \/ EnableScheduler \/ EnterCallback \/ LeaveCallback
         \/ UNCHANGED vars
  PROVE  IInv'
<1>1. TypeOK /\ OtherTypes /\ Booting /\ Consistent(Words, suspend, Threads)
  BY TypesSplit DEF IInv
<1>2. CASE SleepRefused
  <2>1. running # NoThread
    BY <1>1, <1>2 DEF SleepRefused, Booting
  <2>2. UNCHANGED vars
    BY <1>2, <2>1 DEF SleepRefused, Adopted, Publish, Words, vars
  <2> QED BY <1>1, <2>2, QuietStep DEF vars, OtherTypes, Booting, Executing, IInv, TypeOK, Caller
<1>3. CASE SleepReturns
  <2>1. waking = NoQueue
    BY <1>3 DEF SleepReturns, IInv
  <2>2. Executing'
    BY <1>3, <1>1 DEF SleepReturns, Executing, IInv, Caller, TypeOK
  <2>3. OtherTypes' /\ Booting'
    BY <1>3, <1>1 DEF SleepReturns, OtherTypes, Booting, Caller, TypeOK
  <2> QED BY <1>1, <1>3, <2>1, <2>2, <2>3, QuietStep DEF SleepReturns, TypeOK
<1>4. ASSUME NEW q \in WaitQueues, WakeupThread(q) PROVE IInv'
  <2>1. OtherTypes' /\ Booting' /\ Executing'
    BY <1>1, <1>4, GuestRunning DEF WakeupThread, OtherTypes, Booting, Executing
  <2> QED BY <1>1, <1>4, <2>1, GuestRunning, QuietStep DEF WakeupThread, TypeOK, Caller
<1>5. CASE DisableScheduler \/ EnableScheduler
  <2>1. idleFlag' \in Nat
    BY <1>1, <1>5 DEF DisableScheduler, EnableScheduler, OtherTypes
  <2>2. OtherTypes' /\ Booting' /\ Executing'
    BY <1>1, <1>5, <2>1, GuestRunning DEF DisableScheduler, EnableScheduler, OtherTypes, Booting, Executing
  <2> QED BY <1>1, <1>5, <2>2, GuestRunning, QuietStep DEF DisableScheduler, EnableScheduler, TypeOK
<1>6. CASE EnterCallback \/ LeaveCallback
  <2>1. OtherTypes' /\ Executing' /\ current' \in Threads \cup {NoThread, ExceptionContext}
    BY <1>1, <1>6, GuestRunning DEF EnterCallback, LeaveCallback, OtherTypes, Executing, TypeOK
  <2>2. Booting'
    BY <1>1, <1>6, ConstantsAssumption DEF EnterCallback, LeaveCallback, Booting
  <2> QED BY <1>1, <1>6, <2>1, <2>2, GuestRunning, QuietStep DEF EnterCallback, LeaveCallback
<1>7. CASE UNCHANGED vars
  BY <1>1, <1>7, QuietStep DEF vars, OtherTypes, Booting, Executing, IInv, TypeOK, Caller
<1> QED BY <1>2, <1>3, <1>4, <1>5, <1>6, <1>7

\* External __OSThreadInit: no thread exists, so the default one is in no list.
LEMMA InitDefaultThreadStep ==
  ASSUME IInv, NEW p \in Priorities, InitDefaultThread(p)
  PROVE  IInv'
<1> DEFINE t == DefaultThread
<1>1. /\ Words \in WordsSet /\ OtherTypes /\ Consistent(Words, suspend, Threads)
      /\ t \in Threads /\ state[t] = "none" /\ waking = NoQueue /\ fault = "none"
  BY TypesSplit, ConstantsAssumption DEF IInv, InitDefaultThread, InGuest
<1>2. Consistent(Words, suspend, Threads \ {t})
  BY <1>1, TakeUnlinked DEF Belongs, Words
<1>3. Words' \in WordsSet /\ OtherTypes'
  <2>1. threadList' \in Seq(Threads)
    BY <1>1, AppendProperties DEF InitDefaultThread, LinkedLast, OtherTypes
  <2>2. Words' \in WordsSet
    BY <1>1, QueuesAssumption DEF InitDefaultThread, Words, WordsSet, ThreadStates
  <2> QED BY <1>1, <2>1, <2>2, ConstantsAssumption DEF InitDefaultThread, OtherTypes
<1>4. \A u \in Threads \ {t} : Words'.state[u] = Words.state[u] /\ Words.state[u] # "running"
      /\ Words'.prio[u] = Words.prio[u] /\ Words'.queueOf[u] = Words.queueOf[u]
  BY <1>1 DEF InitDefaultThread, Words, WordsSet
<1>5. Words'.queues = Words.queues /\ Words'.pending = Words.pending /\ suspend' = suspend
  BY DEF InitDefaultThread, Words
<1>6. Consistent(Words', suspend', Threads \ {t})
  <2>1. SameBut(Words, Words', suspend, suspend', t)
    BY <1>4, <1>5 DEF SameBut
  <2> QED BY <1>1, <1>2, <1>3, <2>1, ChangeInHand
<1>7. Sound(Words', suspend', t) /\ state'[t] = "running"
  BY <1>1, ConstantsAssumption DEF InitDefaultThread, Words, WordsSet, Sound, Consistent, Dead
<1>8. Consistent(Words', suspend', Threads)
  BY <1>1, <1>6, <1>7, PutUnlinked DEF Belongs, Words
<1>9. Noticed(Words')
  <2>1. \A q \in Priorities : queues[q] = <<>>
    <3> SUFFICES ASSUME NEW q \in Priorities, queues[q] # <<>> PROVE FALSE
      OBVIOUS
    <3>1. Head(queues[q]) \in Threads /\ Belongs(Words, suspend, Head(queues[q]), q)
      BY <1>1, HeadBelongs DEF Words
    <3> QED BY <3>1 DEF InitDefaultThread, Belongs, Words
  <2>2. pending' = {}
    BY <1>1, <2>1 DEF InitDefaultThread, Consistent, Mask, Words, WordsSet
  <2> QED BY <2>2 DEF Noticed, Words
<1>10. running' = t /\ t # NoThread
  BY <1>1, ConstantsAssumption DEF InitDefaultThread
<1>11. TypeOK'
  BY <1>3 DEF TypeOK, OtherTypes, Words, WordsSet
<1> QED BY <1>1, <1>7, <1>8, <1>9, <1>10, <1>11 DEF InitDefaultThread, IInv, Executing, Booting

\* Creating a thread: dead before, READY but suspended after; in no list.
LEMMA CreateThreadStep ==
  ASSUME IInv, NEW t \in Threads, NEW p \in Priorities, CreateThread(t, p)
  PROVE  IInv'
<1>1. /\ Words \in WordsSet /\ OtherTypes /\ Consistent(Words, suspend, Threads)
      /\ state[t] = "none" /\ waking = NoQueue /\ fault = "none"
      /\ t # DefaultThread /\ t # running
  BY TypesSplit, ConstantsAssumption DEF IInv, CreateThread, InGuest, Caller
<1>2. Consistent(Words, suspend, Threads \ {t})
  BY <1>1, TakeUnlinked DEF Belongs, Words
<1>3. Words' \in WordsSet /\ OtherTypes'
  <2>1. threadList' \in Seq(Threads)
    BY <1>1, AppendProperties DEF CreateThread, LinkedLast, OtherTypes
  <2>2. Words' \in WordsSet
    BY <1>1, QueuesAssumption DEF CreateThread, Words, WordsSet, ThreadStates
  <2> QED BY <1>1, <2>1, <2>2 DEF CreateThread, OtherTypes
<1>4. /\ \A u \in Threads \ {t} : /\ Words'.state[u] = Words.state[u]
                                  /\ Words'.prio[u] = Words.prio[u]
                                  /\ Words'.queueOf[u] = Words.queueOf[u]
                                  /\ suspend'[u] = suspend[u]
      /\ Words'.running = Words.running
  BY <1>1 DEF CreateThread, Words, WordsSet, OtherTypes
<1>5. Words'.queues = Words.queues /\ Words'.pending = Words.pending
  BY DEF CreateThread, Words
<1>6. Consistent(Words', suspend', Threads \ {t})
  <2>1. SameBut(Words, Words', suspend, suspend', t)
    BY <1>4, <1>5 DEF SameBut
  <2> QED BY <1>2, <1>3, <2>1, ChangeInHand
<1>7. state'[t] = "ready" /\ suspend'[t] = 1
  BY <1>1 DEF CreateThread, Words, WordsSet, OtherTypes
<1>8. Consistent(Words', suspend', Threads)
  <2>1. \A q \in Queues : ~Belongs(Words', suspend', t, q)
    BY <1>7 DEF Belongs, Words
  <2>2. Sound(Words', suspend', t)
    BY <1>7 DEF Sound, Words, Dead
  <2> QED BY <1>6, <2>1, <2>2, PutUnlinked
<1>9. Noticed(Words')
  <2>1. running \in Threads => prio'[running] = prio[running]
    BY <1>1, <1>4 DEF Words
  <2>2. running \in Threads \cup {NoThread}
    BY <1>1 DEF Words, WordsSet
  <2> QED BY <1>1, <2>1, <2>2 DEF IInv, Noticed, CreateThread, Words
<1>10. TypeOK'
  BY <1>3 DEF TypeOK, OtherTypes, Words, WordsSet
<1>11. Booting' /\ Executing'
  BY <1>1, <1>4, ConstantsAssumption DEF IInv, CreateThread, Booting, Executing, Words, WordsSet
<1> QED BY <1>1, <1>8, <1>9, <1>10, <1>11 DEF CreateThread, IInv

\* Reaping a moribund thread: in no list before and after.
LEMMA ReapThreadStep ==
  ASSUME IInv, NEW t \in Threads, ReapThread(t)
  PROVE  IInv'
<1>1. /\ Words \in WordsSet /\ OtherTypes /\ Consistent(Words, suspend, Threads)
      /\ state[t] = "moribund" /\ waking = NoQueue /\ fault = "none"
  BY TypesSplit DEF IInv, ReapThread, InGuest
<1>2. Consistent(Words, suspend, Threads \ {t})
  BY <1>1, TakeUnlinked DEF Belongs, Words
<1>3. Words' \in WordsSet /\ OtherTypes'
  <2>1. threadList' \in Seq(Threads)
    BY <1>1, RemoveFirstType DEF ReapThread, OtherTypes
  <2>2. Words' \in WordsSet
    BY <1>1 DEF ReapThread, Words, WordsSet, ThreadStates, Dead
  <2> QED BY <1>1, <2>1, <2>2 DEF ReapThread, OtherTypes
<1>4. /\ \A u \in Threads \ {t} : Words'.state[u] = Words.state[u]
      /\ Words'.prio = Words.prio /\ Words'.queueOf = Words.queueOf /\ suspend' = suspend
      /\ Words'.running = Words.running
      /\ Words'.queues = Words.queues /\ Words'.pending = Words.pending
  BY <1>1 DEF ReapThread, Words, WordsSet
<1>5. Consistent(Words', suspend', Threads \ {t})
  <2>1. SameBut(Words, Words', suspend, suspend', t)
    BY <1>4 DEF SameBut
  <2> QED BY <1>2, <1>3, <2>1, ChangeInHand
<1>6. state'[t] = "none"
  BY <1>1 DEF ReapThread, Words, WordsSet
<1>7. Consistent(Words', suspend', Threads)
  <2>1. \A q \in Queues : ~Belongs(Words', suspend', t, q)
    BY <1>6 DEF Belongs, Words
  <2>2. Sound(Words', suspend', t)
    BY <1>1, <1>4, <1>6 DEF Sound, Words, Dead, Consistent
  <2> QED BY <1>5, <2>1, <2>2, PutUnlinked
<1>8. Noticed(Words')
  BY <1>1 DEF IInv, Noticed, ReapThread, Words
<1>9. TypeOK'
  BY <1>3 DEF TypeOK, OtherTypes, Words, WordsSet
<1>10. Booting' /\ Executing'
  BY <1>1, <1>4, <1>6, ConstantsAssumption DEF IInv, ReapThread, Booting, Executing, Words, WordsSet
<1> QED BY <1>1, <1>7, <1>8, <1>9, <1>10 DEF ReapThread, IInv

\* OSYieldThread.
LEMMA YieldThreadStep ==
  ASSUME IInv, YieldThread
  PROVE  IInv'
<1>1. Consistent(Words, suspend', Threads) /\ Noticed(Words) /\ fault = "none" /\ waking' = NoQueue
  BY GuestRunning DEF IInv, YieldThread
<1>2. SelectThread(TRUE, Words)
  BY DEF YieldThread
<1>3. fault' \in {fault, "SELECTTHREAD_IDLE_POLL"}
  BY <1>2 DEF SelectThread
<1>4. OtherTypes'
  BY <1>3, TypesSplit DEF IInv, YieldThread, OtherTypes
<1>5. ASSUME Words' = Words PROVE Executing' /\ Booting'
  BY <1>5, GuestRunning DEF IInv, YieldThread, Executing, Booting, Words
<1> QED BY <1>1, <1>2, <1>4, <1>5, AfterSelectThread

\* The end of OSWakeupThread.
LEMMA WakeDoneStep ==
  ASSUME IInv, WakeDone
  PROVE  IInv'
<1>1. Consistent(Words, suspend', Threads) /\ Noticed(Words) /\ fault = "none" /\ waking' = NoQueue
  BY DEF IInv, WakeDone
<1>2. Reschedule(Words)
  BY DEF WakeDone
<1>3. fault' \in {fault, "SELECTTHREAD_IDLE_POLL"}
  BY <1>2 DEF Reschedule, SelectThread
<1>4. OtherTypes'
  BY <1>3, TypesSplit DEF IInv, WakeDone, OtherTypes
<1>5. ASSUME Words' = Words PROVE Executing' /\ Booting'
  BY <1>5 DEF IInv, WakeDone, Executing, Booting, Words
<1> QED BY <1>1, <1>2, <1>4, <1>5, AfterReschedule

\* Suspend counts matter to the lists only by being zero or not.
LEMMA SameZeros ==
  ASSUME NEW w, NEW sus, NEW sus2, Consistent(w, sus, Threads),
         \A u \in Threads : sus2[u] = 0 <=> sus[u] = 0
  PROVE  Consistent(w, sus2, Threads)
BY DEF Consistent, Lists, Belongs, Sound

\* Asking for a reschedule does not touch the lists.
LEMMA AskReschedule ==
  ASSUME NEW w, NEW sus, NEW T, Consistent(w, sus, T)
  PROVE  /\ Consistent([w EXCEPT !.resched = TRUE], sus, T)
         /\ Noticed([w EXCEPT !.resched = TRUE])
         /\ \A f \in {"state", "prio", "queueOf", "queues", "pending", "running", "current"} :
              [w EXCEPT !.resched = TRUE][f] = w[f]
<1>1. w \in WordsSet
  BY DEF Consistent
<1>2. /\ [w EXCEPT !.resched = TRUE] \in WordsSet
      /\ \A f \in {"state", "prio", "queueOf", "queues", "pending", "running", "current"} :
           [w EXCEPT !.resched = TRUE][f] = w[f]
      /\ [w EXCEPT !.resched = TRUE].resched = TRUE
  BY <1>1 DEF WordsSet
<1>3. Consistent([w EXCEPT !.resched = TRUE], sus, T)
  BY <1>2 DEF Consistent, Lists, Belongs, Sound, Mask, Sorted
<1> QED BY <1>2, <1>3 DEF Noticed

\* OSWakeupThread moves one thread from the wait queue to its run queue.
LEMMA WakeHeadStep ==
  ASSUME IInv, WakeHead
  PROVE  IInv'
<1> DEFINE q == waking
           t == Head(queues[q])
           v == [Words EXCEPT !.queues[q] = Tail(@), !.state[t] = "ready"]
           n == IF suspend[t] = 0 THEN LinkOnRunQueue(v, t) ELSE v
<1>1. /\ Words \in WordsSet /\ OtherTypes /\ Consistent(Words, suspend, Threads)
      /\ fault = "none" /\ q \in WaitQueues /\ parked[Caller] = NoQueue
      /\ Noticed(Words) /\ Executing /\ Booting
  BY TypesSplit DEF IInv, WakeHead, OtherTypes
<1>2. queues[q] # <<>> /\ Words.queues[q] = queues[q] /\ queues[q] \in Seq(Threads)
  BY <1>1 DEF WakeHead, Words, WordsSet
<1>3. t \in Threads /\ Belongs(Words, suspend, t, q)
  BY <1>1, <1>2, HeadBelongs
<1>4. state[t] = "waiting"
  BY <1>1, <1>3, QueuesAssumption DEF Belongs, Consistent, Sound, Words
<1>5. Publish(n)
  BY DEF WakeHead
<1>6. /\ v \in WordsSet
      /\ v.state = [state EXCEPT ![t] = "ready"]
      /\ v.prio = prio /\ v.queueOf = queueOf
      /\ v.queues = [queues EXCEPT ![q] = Tail(@)]
      /\ v.pending = pending /\ v.resched = resched /\ v.running = running
  <2>1. Tail(queues[q]) \in Seq(Threads)
    BY <1>2, HeadTailProperties
  <2> HIDE DEF t
  <2> QED BY <1>1, <1>3, <2>1 DEF Words, WordsSet, ThreadStates
<1> HIDE DEF v
<1>7. Consistent(v, suspend, Threads \ {t})
  <2>1. q \in Queues /\ q \notin pending
    BY <1>1, QueuesAssumption DEF Words, WordsSet
  <2>2. \A u \in Threads \ {t} :
          /\ v.state[u] = Words.state[u]
          /\ v.queueOf[u] = Words.queueOf[u]
          /\ Words.state[u] = "running" => v.running = Words.running
    BY <1>1, <1>6 DEF Words, WordsSet
  <2>3. /\ v.queues = [Words.queues EXCEPT ![q] = Tail(@)]
        /\ v.pending = IF Tail(Words.queues[q]) = <<>> THEN Words.pending \ {q} ELSE Words.pending
        /\ v.prio = Words.prio /\ v.running = Words.running
        /\ t = Head(Words.queues[q]) /\ Words.queues[q] # <<>>
    BY <1>2, <1>6, <2>1 DEF Words
  <2> HIDE DEF t
  <2>4. HeadTaken(Words, q, t, v)
    BY ONLY <1>6, <2>2, <2>3 DEF HeadTaken
  <2> QED BY ONLY <1>1, <2>1, <2>4, TakeHead
<1>8. v.state[t] = "ready"
  BY <1>1, <1>3, <1>6 DEF Words, WordsSet
<1>9. /\ Consistent(n, suspend, Threads) /\ n.state = v.state /\ n.prio = prio /\ n.running = running
      /\ n.resched \/ n = v
  <2>1. CASE suspend[t] = 0
    <3>1. v.prio[t] \in Priorities
      BY <1>1, <1>3, <1>6, <2>1 DEF Consistent, Sound, Words
    <3> HIDE DEF t
    <3>2. /\ Consistent(LinkOnRunQueue(v, t), suspend, Threads)
          /\ \A f \in {"state", "prio", "running", "current"} : LinkOnRunQueue(v, t)[f] = v[f]
          /\ LinkOnRunQueue(v, t).resched = TRUE
      BY ONLY <1>3, <1>7, <1>8, <2>1, <3>1, PutOnRunQueue
    <3> QED BY <1>6, <2>1, <3>2
  <2>2. CASE suspend[t] # 0
    <3>1. \A k \in Queues : ~Belongs(v, suspend, t, k)
      BY <2>2, <1>8 DEF Belongs
    <3>2. Sound(v, suspend, t)
      BY <2>2, <1>8 DEF Sound, Dead
    <3>3. Consistent(v, suspend, Threads)
      BY <1>3, <1>7, <3>1, <3>2, PutUnlinked
    <3> QED BY <1>6, <2>2, <3>3
  <2> QED BY <2>1, <2>2
<1> HIDE DEF n
<1>10. Words' = n
  BY <1>5, <1>9, PublishWords DEF Consistent
<1>11. Noticed(Words')
  BY <1>1, <1>6, <1>9, <1>10 DEF Noticed, Words
<1>12. TypeOK'
  BY <1>1, <1>9, <1>10 DEF Consistent, TypeOK, OtherTypes, Words, WordsSet, WakeHead
<1>13. running' = running /\ \A u \in Threads : u # t => state'[u] = state[u]
  BY <1>1, <1>6, <1>9, <1>10 DEF Words, WordsSet
<1>14. Executing' /\ Booting'
  <2>1. CASE running = NoThread
    <3>1. current' = current
      BY <1>5, <1>6 DEF Publish, n, v, LinkOnRunQueue, Words
    <3> QED BY <2>1, <3>1, <1>1, <1>4, <1>13, ConstantsAssumption DEF Booting, Executing, WakeHead
  <2>2. CASE running # NoThread
    <3>1. running \in Threads /\ state[running] = "running"
      BY <2>2, <1>1 DEF Executing, Caller, Words, WordsSet
    <3> QED BY <2>2, <3>1, <1>4, <1>13 DEF Executing, Booting
  <2> QED BY <2>1, <2>2
<1>15. Consistent(Words', suspend', Threads)
  BY <1>9, <1>10 DEF WakeHead
<1>16. waking' # NoQueue => parked'[Caller'] = NoQueue
  BY <1>1, <1>13 DEF WakeHead, Caller
<1> QED BY <1>11, <1>12, <1>14, <1>15, <1>16 DEF IInv

\* OSSleepThread returns unparked: the caller leaves the wait queue, RUNNING.
LEMMA SleepUndoneStep ==
  ASSUME IInv, SleepUndone
  PROVE  IInv'
<1> DEFINE t == running
           r == RemoveFromQueue(Words, t)
           v == [r EXCEPT !.state[t] = "running"]
<1>1. /\ Words \in WordsSet /\ OtherTypes /\ Consistent(Words, suspend, Threads)
      /\ fault = "none" /\ waking = NoQueue
      /\ Noticed(Words) /\ Executing /\ Booting
  BY TypesSplit DEF IInv, SleepUndone
<1>2. t \in Threads /\ Caller = t /\ state[t] = "waiting" /\ suspend[t] = 0
  BY <1>1 DEF SleepUndone, Caller, Booting, Executing, Words, WordsSet
<1>3. Publish(v)
  BY <1>2 DEF SleepUndone
<1>4. /\ Consistent(r, suspend, Threads \ {t})
      /\ r.state = state /\ r.prio = prio /\ r.resched = resched
      /\ r.running = running /\ r.current = current
      /\ r.queueOf = [queueOf EXCEPT ![t] = NoQueue]
      /\ r.pending \subseteq pending
  <2>1. Consistent(r, suspend, Threads \ {t})
    BY <1>1, <1>2, TakeLinked DEF Words
  <2> QED BY <2>1, <1>1 DEF RemoveFromQueue, Words, WordsSet
<1> HIDE DEF r
<1>5. r \in WordsSet
  BY <1>4 DEF Consistent
<1>6. /\ v \in WordsSet /\ v.state = [state EXCEPT ![t] = "running"]
      /\ v.prio = prio /\ v.resched = resched /\ v.running = running /\ v.current = current
      /\ v.queueOf = r.queueOf /\ v.pending = r.pending /\ v.queues = r.queues
  BY <1>4, <1>5 DEF WordsSet, ThreadStates
<1> HIDE DEF v
<1>7. Consistent(v, suspend, Threads \ {t})
  <2>1. SameBut(r, v, suspend, suspend, t)
    BY <1>4, <1>5, <1>6 DEF SameBut, WordsSet
  <2> QED BY <1>2, <1>4, <1>6, <2>1, ChangeInHand
<1>8. v.state[t] = "running"
  BY <1>1, <1>2, <1>6 DEF Words, WordsSet
<1>9. Consistent(v, suspend, Threads)
  <2>1. Sound(v, suspend, t)
    BY <1>1, <1>2, <1>6, <1>8 DEF Sound, Dead, Consistent, Words
  <2>2. \A q \in Queues : ~Belongs(v, suspend, t, q)
    BY <1>8 DEF Belongs
  <2> QED BY <1>2, <1>7, <2>1, <2>2, PutUnlinked
<1>10. Words' = v
  BY <1>3, <1>6, PublishWords
<1>11. Noticed(Words')
  BY <1>1, <1>4, <1>6, <1>10 DEF Noticed, Words
<1>12. parked' \in [Threads -> WaitQueues \cup {NoQueue}]
  BY <1>1, <1>2 DEF SleepUndone, OtherTypes
<1>13. TypeOK'
  BY <1>1, <1>6, <1>10, <1>12 DEF TypeOK, OtherTypes, Words, WordsSet, SleepUndone
<1>14. running' = t /\ state'[t] = "running"
  BY <1>6, <1>8, <1>10 DEF Words
<1> QED BY <1>1, <1>2, <1>9, <1>10, <1>11, <1>13, <1>14, ConstantsAssumption
        DEF IInv, SleepUndone, Executing, Booting

\* The caller of OSSleepThread: RUNNING, or the default thread about to be adopted.
LEMMA AdoptedCaller ==
  ASSUME IInv, InGuest
  PROVE  /\ Adopted \in WordsSet
         /\ Adopted.running \in Threads
         /\ Adopted.state = state /\ Adopted.prio = prio /\ Adopted.queueOf = queueOf
         /\ Adopted.queues = queues /\ Adopted.pending = pending
         /\ suspend[Adopted.running] = 0
         /\ state[Adopted.running] \notin {"ready", "waiting"}
         /\ \A u \in Threads : state[u] = "running" => Adopted.running = running
<1>1. /\ Words \in WordsSet /\ Booting /\ running \in Threads \cup {NoThread}
      /\ \A u \in Threads : Sound(Words, suspend, u)
  BY TypesSplit DEF IInv, Consistent, TypeOK
<1>2. CASE running = NoThread
  <2>1. /\ DefaultThread \in Threads /\ state[DefaultThread] = "none"
        /\ suspend[DefaultThread] = 0
    BY <1>1, <1>2, ConstantsAssumption DEF Booting, Sound, Dead, Words
  <2>2. Adopted = [Words EXCEPT !.running = DefaultThread, !.current = DefaultThread]
    BY <1>2 DEF Adopted
  <2>3. \A u \in Threads : state[u] # "running"
    BY <1>2, GuestRunning
  <2> QED BY <1>1, <2>1, <2>2, <2>3 DEF Words, WordsSet
<1>3. CASE running # NoThread
  BY <1>1, <1>3, GuestRunning DEF Adopted, Words
<1> QED BY <1>2, <1>3

\* The words of OSSleepThread's caller, linked into the wait queue.
Asleep(q) ==
  [InsertByPriority([Adopted EXCEPT !.state[Adopted.running] = "waiting"], q, Adopted.running)
     EXCEPT !.resched = TRUE]

LEMMA AsleepConsistent ==
  ASSUME IInv, InGuest, NEW q \in WaitQueues
  PROVE  /\ Consistent(Asleep(q), suspend, Threads) /\ Noticed(Asleep(q))
         /\ Asleep(q).running = Adopted.running
         /\ Asleep(q).state[Adopted.running] = "waiting"
         /\ Asleep(q).queueOf[Adopted.running] = q
         /\ KeepsOrder(Words, Asleep(q))
<1> DEFINE t == Adopted.running
           w == [Adopted EXCEPT !.state[t] = "waiting"]
           i == InsertByPriority(w, q, t)
           v == [i EXCEPT !.resched = TRUE]
<1>2. Words \in WordsSet /\ Consistent(Words, suspend, Threads)
  BY TypesSplit DEF IInv
<1>3. /\ Adopted \in WordsSet /\ t \in Threads
      /\ Adopted.state = state /\ Adopted.prio = prio /\ Adopted.queueOf = queueOf
      /\ Adopted.queues = queues /\ Adopted.pending = pending
      /\ suspend[t] = 0
      /\ state[t] \notin {"ready", "waiting"}
      /\ \A u \in Threads : state[u] = "running" => Adopted.running = running
  BY AdoptedCaller
<1>4. Consistent(Words, suspend, Threads \ {t})
  BY <1>2, <1>3, TakeUnlinked DEF Belongs, Words
<1> HIDE DEF t
<1>5. /\ w \in WordsSet /\ w.state = [state EXCEPT ![t] = "waiting"]
      /\ w.prio = prio /\ w.queueOf = queueOf /\ w.queues = queues /\ w.pending = pending
      /\ w.running = t
  BY <1>3 DEF WordsSet, ThreadStates, t
<1> HIDE DEF w
<1>6. Consistent(w, suspend, Threads \ {t})
  <2>1. SameBut(Words, w, suspend, suspend, t)
    BY <1>2, <1>3, <1>5 DEF SameBut, Words, WordsSet, t
  <2> QED BY <1>3, <1>4, <1>5, <2>1, ChangeInHand
<1>7. w.state[t] = "waiting" /\ w.prio[t] \in Priorities
  BY <1>2, <1>3, <1>5 DEF Words, WordsSet, Consistent, Sound
<1>8. /\ Consistent(i, suspend, Threads)
      /\ i.state = w.state /\ i.prio = w.prio /\ i.running = w.running
      /\ i.queueOf = [w.queueOf EXCEPT ![t] = q]
  <2>1. /\ q \in Queues /\ t \in Threads
        /\ \/ w.state[t] = "waiting" /\ q \in WaitQueues
           \/ w.state[t] = "ready" /\ suspend[t] = 0 /\ w.prio[t] = q
        /\ suspend[t] = 0 => w.prio[t] \in Priorities
        /\ w.state[t] = "waiting" /\ suspend[t] # 0 => w.prio[t] = LowestPriority
    BY <1>3, <1>7
  <2>2. Consistent(InsertByPriority(w, q, t), suspend, Threads)
    BY ONLY <1>6, <2>1, PutByPriority
  <2>3. /\ i.state = w.state /\ i.prio = w.prio /\ i.running = w.running
        /\ i.queueOf = [w.queueOf EXCEPT ![t] = q]
    BY <1>5 DEF InsertByPriority, WordsSet
  <2> QED BY <2>2, <2>3 DEF i
<1>9. KeepsOrder(Words, i)
  <2>1. SameBut(Words, w, suspend, suspend, t)
    BY <1>2, <1>3, <1>5 DEF SameBut, Words, WordsSet, t
  <2>2. KeepsOrder(Words, w)
    BY <1>2, <1>3, <1>4, <2>1, OrderStarts, OrderInHand
  <2>3. t \notin Range(Words.queues[q])
    BY <1>4 DEF Consistent, Lists
  <2> QED BY <1>3, <1>6, <2>2, <2>3, OrderInserted DEF IsNew, i
<1> HIDE DEF i
<1>10. /\ Consistent(v, suspend, Threads) /\ Noticed(v) /\ KeepsOrder(Words, v)
      /\ v.state = w.state /\ v.queueOf = [queueOf EXCEPT ![t] = q] /\ v.running = t
  <2>1. /\ Consistent(v, suspend, Threads) /\ Noticed(v)
        /\ \A f \in {"state", "prio", "queueOf", "queues", "pending", "running", "current"} :
             v[f] = i[f]
    BY <1>8, AskReschedule
  <2>2. KeepsOrder(Words, v)
    BY <1>9, <2>1, OrderSame
  <2> QED BY <1>5, <1>8, <2>1, <2>2
<1>11. v = Asleep(q)
  BY DEF Asleep, v, i, w, t
<1> HIDE DEF v
<1>12. v.state[t] = "waiting" /\ v.queueOf[t] = q
  BY <1>2, <1>3, <1>7, <1>10 DEF Words, WordsSet
<1> QED BY <1>10, <1>11, <1>12 DEF t

\* OSSleepThread links its caller into the wait queue and reschedules.
LEMMA SleepThreadStep ==
  ASSUME IInv, NEW q \in WaitQueues, SleepThread(q)
  PROVE  IInv'
<1> DEFINE t == Adopted.running
<1>1. /\ InGuest /\ idleFlag = 0 /\ suspend' = suspend /\ parked' = [parked EXCEPT ![t] = q]
      /\ SelectThread(FALSE, Asleep(q))
  BY DEF SleepThread, Asleep
<1>2. OtherTypes /\ fault = "none" /\ waking = NoQueue
  BY <1>1, TypesSplit DEF IInv, InGuest
<1>3. t \in Threads /\ suspend[t] = 0
  BY <1>1, AdoptedCaller
<1> HIDE DEF t
<1>4. /\ Consistent(Asleep(q), suspend, Threads) /\ Noticed(Asleep(q))
      /\ Asleep(q).running = t /\ Asleep(q).state[t] = "waiting" /\ Asleep(q).queueOf[t] = q
  BY <1>1, AsleepConsistent DEF t
<1>5. fault' \in {fault, "SELECTTHREAD_IDLE_POLL"}
  BY <1>1 DEF SelectThread
<1>6. OtherTypes' /\ waking' = NoQueue
  BY <1>1, <1>2, <1>3, <1>5 DEF SleepThread, OtherTypes
<1>7. ASSUME Words' = Asleep(q) PROVE Executing' /\ Booting'
  <2>1. running' = t /\ state'[t] = "waiting" /\ queueOf'[t] = q
    BY <1>4, <1>7 DEF Words
  <2>2. parked'[t] = q /\ suspend'[t] = 0 /\ t # NoThread /\ q # NoQueue
    BY <1>1, <1>2, <1>3, ConstantsAssumption, QueuesAssumption DEF OtherTypes
  <2> QED BY <2>1, <2>2 DEF Executing, Booting
<1> QED BY <1>1, <1>2, <1>4, <1>6, <1>7, AfterSelectThread

\* The words OSExitThread leaves to SelectThread.
Exited(final) == [Words EXCEPT !.state[running] = final, !.resched = TRUE]

LEMMA ExitedConsistent ==
  ASSUME IInv, InGuest, NEW final \in Dead, running # NoThread, current = running
  PROVE  /\ Consistent(Exited(final), suspend, Threads) /\ Noticed(Exited(final))
         /\ Exited(final).running = running
         /\ idleFlag = 0 => ~Declines(FALSE, Exited(final))
<1> DEFINE t == running
           w == [Words EXCEPT !.state[t] = final, !.resched = TRUE]
<1>1. /\ Words \in WordsSet /\ Consistent(Words, suspend, Threads)
      /\ t \in Threads /\ state[t] = "running" /\ suspend[t] = 0
  BY TypesSplit, GuestRunning DEF IInv, Words, WordsSet
<1>2. Consistent(Words, suspend, Threads \ {t})
  BY <1>1, TakeUnlinked DEF Belongs, Words
<1>3. /\ w \in WordsSet /\ w.state = [state EXCEPT ![t] = final] /\ w.resched = TRUE
      /\ w.prio = prio /\ w.queueOf = queueOf /\ w.queues = queues /\ w.pending = pending
      /\ w.running = t /\ w.current = current
  BY <1>1 DEF Words, WordsSet, ThreadStates
<1> HIDE DEF w
<1>4. Consistent(w, suspend, Threads \ {t})
  <2>1. SameBut(Words, w, suspend, suspend, t)
    BY <1>1, <1>3 DEF SameBut, Words, WordsSet
  <2> QED BY <1>1, <1>2, <1>3, <2>1, ChangeInHand
<1>5. w.state[t] = final
  BY <1>1, <1>3 DEF Words, WordsSet
<1>6. Consistent(w, suspend, Threads)
  <2>1. Sound(w, suspend, t)
    BY <1>1, <1>3, <1>5 DEF Sound, Dead, Consistent, Words
  <2>2. \A q \in Queues : ~Belongs(w, suspend, t, q)
    BY <1>5 DEF Belongs, Dead
  <2> QED BY <1>1, <1>4, <2>1, <2>2, PutUnlinked
<1>7. Noticed(w) /\ (idleFlag = 0 => ~Declines(FALSE, w))
  <2>1. Noticed(w)
    BY <1>3 DEF Noticed
  <2>2. idleFlag = 0 => ~Declines(FALSE, w)
    BY <1>1, <1>3, <1>5, ConstantsAssumption DEF Declines, Dead, IInv, TypeOK
  <2> QED BY <2>1, <2>2
<1> QED BY <1>3, <1>6, <1>7 DEF w, Exited

\* OSExitThread: the running thread dies and somebody else is selected.
LEMMA ExitThreadStep ==
  ASSUME IInv, NEW final \in Dead, ExitThread(final)
  PROVE  IInv'
<1>1. /\ OtherTypes /\ fault = "none" /\ waking = NoQueue /\ InGuest
      /\ running # NoThread /\ current = running /\ idleFlag = 0
      /\ SelectThread(FALSE, Exited(final)) /\ suspend' = suspend
  BY TypesSplit DEF IInv, ExitThread, InGuest, Exited
<1>2. /\ Consistent(Exited(final), suspend, Threads) /\ Noticed(Exited(final))
      /\ ~Declines(FALSE, Exited(final))
  BY <1>1, ExitedConsistent
<1>3. fault' \in {fault, "SELECTTHREAD_IDLE_POLL"}
  BY <1>1 DEF SelectThread
<1>4. threadList' \in Seq(Threads)
  BY <1>1, RemoveFirstType DEF ExitThread, OtherTypes
<1>5. OtherTypes' /\ waking' = NoQueue
  BY <1>1, <1>3, <1>4 DEF ExitThread, OtherTypes
<1> QED BY <1>1, <1>2, <1>5, AfterSelectThread

\* OSResumeThread of a WAITING thread puts it where its own priority belongs, of a
\* READY one makes it runnable and asks for a reschedule.
LEMMA ResumedConsistent ==
  ASSUME IInv, InGuest, NEW t \in Threads, suspend[t] = 1,
         suspend' = [suspend EXCEPT ![t] = 0]
  PROVE  /\ Consistent(Resumed(t), suspend', Threads)
         /\ Noticed(Resumed(t))
         /\ Resumed(t).state = state /\ Resumed(t).running = running
         /\ Resumed(t).current = current
         /\ KeepsOrder(Words, Resumed(t))
<1>1. /\ Words \in WordsSet /\ OtherTypes /\ Consistent(Words, suspend, Threads)
      /\ Noticed(Words) /\ Sound(Words, suspend, t)
      /\ base[t] \in Priorities /\ base[t] \in 0 .. LowestPriority
  <2>1. base[t] \in Priorities
    BY DEF IInv, TypeOK
  <2> QED BY <2>1, TypesSplit, GuestRunning, QueuesAssumption DEF IInv, Consistent
<1>2. state[t] \in {"ready", "waiting"}
  BY <1>1 DEF Sound, Words, WordsSet, ThreadStates
<1>3. suspend' \in [Threads -> Nat] /\ suspend'[t] = 0
      /\ \A u \in Threads \ {t} : suspend'[u] = suspend[u]
  BY <1>1 DEF OtherTypes
<1>4. running # t
  BY GuestRunning, <1>1, ConstantsAssumption
<1>5. CASE state[t] = "waiting"
  <2> DEFINE r == RemoveFromQueue(Words, t)
             v == [r EXCEPT !.prio[t] = base[t]]
             q == queueOf[t]
             i == InsertByPriority(v, q, t)
  <2>1. q \in WaitQueues
    BY <1>1, <1>5 DEF Sound, Words
  <2>2. /\ Consistent(r, suspend, Threads \ {t})
        /\ r.state = state /\ r.prio = prio /\ r.resched = resched
        /\ r.running = running /\ r.current = current
        /\ r.pending \subseteq pending
    <3>1. Consistent(r, suspend, Threads \ {t})
      BY <1>1, <1>5, TakeLinked DEF Words
    <3> QED BY <3>1, <1>1 DEF RemoveFromQueue, Words, WordsSet
  <2>3. Resumed(t) = i
    BY <1>5 DEF Resumed, EffectivePriority
  <2> HIDE DEF r
  <2>4. r \in WordsSet
    BY <2>2 DEF Consistent
  <2>5. /\ v \in WordsSet /\ v.prio = [prio EXCEPT ![t] = base[t]]
        /\ v.state = state /\ v.resched = resched /\ v.running = running /\ v.current = current
        /\ v.queueOf = r.queueOf /\ v.pending = r.pending /\ v.queues = r.queues
    BY <1>1, <2>2, <2>4 DEF WordsSet
  <2> HIDE DEF v
  <2>6. Consistent(v, suspend', Threads \ {t})
    <3>1. SameBut(r, v, suspend, suspend', t)
      BY <1>1, <1>3, <2>2, <2>5 DEF SameBut, Words, WordsSet
    <3> QED BY <2>2, <2>5, <3>1, ChangeInHand
  <2>7. /\ q \in Queues /\ t \in Threads
        /\ \/ v.state[t] = "waiting" /\ q \in WaitQueues
           \/ v.state[t] = "ready" /\ suspend'[t] = 0 /\ v.prio[t] = q
        /\ suspend'[t] = 0 => v.prio[t] \in Priorities
        /\ v.state[t] = "waiting" /\ suspend'[t] # 0 => v.prio[t] = LowestPriority
    BY <1>1, <1>3, <1>5, <2>1, <2>5 DEF Words, WordsSet
  <2>8. Consistent(i, suspend', Threads)
    BY ONLY <2>6, <2>7, PutByPriority DEF i
  <2>9. /\ i.state = v.state /\ i.prio = v.prio /\ i.running = v.running
        /\ i.current = v.current /\ i.resched = v.resched /\ i.pending = v.pending
    BY <2>1, <2>5, QueuesAssumption DEF InsertByPriority, WordsSet
  <2> HIDE DEF i
  <2>10. Noticed(i)
    <3>1. running # NoThread => i.prio[running] = prio[running]
      BY <1>1, <1>4, <2>5, <2>9 DEF Words, WordsSet
    <3> QED BY <1>1, <2>2, <2>5, <2>9, <3>1 DEF Noticed, Words
  <2>11. KeepsOrder(Words, i)
    <3>1. KeepsOrder(Words, r)
      BY <1>1, <1>5, OrderStarts, OrderRemoved DEF r, Words
    <3>2. SameBut(r, v, suspend, suspend', t)
      BY <1>1, <1>3, <2>2, <2>5 DEF SameBut, Words, WordsSet
    <3>3. KeepsOrder(Words, v)
      BY <2>2, <3>1, <3>2, OrderInHand
    <3>4. v.prio[t] # Words.prio[t]
      BY <1>1, <1>5, <2>5, QueuesAssumption DEF Sound, Words, WordsSet
    <3> QED BY <2>1, <2>6, <3>3, <3>4, OrderInserted DEF IsNew, i
  <2> QED BY <2>3, <2>5, <2>8, <2>9, <2>10, <2>11
<1>6. CASE state[t] = "ready"
  <2> DEFINE v == [Words EXCEPT !.prio[t] = base[t]]
             q == base[t]
             i == InsertByPriority(v, q, t)
             n == [i EXCEPT !.resched = TRUE]
  <2>1. Consistent(Words, suspend, Threads \ {t})
    BY <1>1, <1>6, TakeUnlinked DEF Belongs, Words
  <2>2. Resumed(t) = n
    BY <1>6 DEF Resumed, EffectivePriority
  <2>3. /\ v \in WordsSet /\ v.prio = [prio EXCEPT ![t] = base[t]]
        /\ v.state = state /\ v.running = running /\ v.current = current
        /\ v.queueOf = queueOf /\ v.pending = pending /\ v.queues = queues
    BY <1>1 DEF Words, WordsSet
  <2> HIDE DEF v
  <2>4. Consistent(v, suspend', Threads \ {t})
    <3>1. SameBut(Words, v, suspend, suspend', t)
      BY <1>1, <1>3, <2>3 DEF SameBut, Words, WordsSet
    <3> QED BY <2>1, <2>3, <3>1, ChangeInHand
  <2>5. /\ q \in Queues /\ t \in Threads
        /\ \/ v.state[t] = "waiting" /\ q \in WaitQueues
           \/ v.state[t] = "ready" /\ suspend'[t] = 0 /\ v.prio[t] = q
        /\ suspend'[t] = 0 => v.prio[t] \in Priorities
        /\ v.state[t] = "waiting" /\ suspend'[t] # 0 => v.prio[t] = LowestPriority
    BY <1>1, <1>3, <1>6, <2>3 DEF Words, WordsSet
  <2>6. Consistent(i, suspend', Threads)
    BY ONLY <2>4, <2>5, PutByPriority DEF i
  <2>7. i.state = v.state /\ i.running = v.running /\ i.current = v.current
    BY <2>3 DEF InsertByPriority, WordsSet
  <2> HIDE DEF i
  <2>8. /\ Consistent(n, suspend', Threads) /\ Noticed(n)
        /\ \A f \in {"state", "prio", "queueOf", "queues", "pending", "running", "current"} :
             n[f] = i[f]
    BY <2>6, AskReschedule
  <2>9. KeepsOrder(Words, i)
    <3>1. SameBut(Words, v, suspend, suspend', t)
      BY <1>1, <1>3, <2>3 DEF SameBut, Words, WordsSet
    <3>2. KeepsOrder(Words, v)
      BY <1>1, <2>1, <3>1, OrderStarts, OrderInHand
    <3>3. t \notin Range(Words.queues[q])
      BY <1>1, <2>1 DEF Consistent, Lists
    <3> QED BY <1>1, <2>4, <3>2, <3>3, OrderInserted DEF IsNew, i
  <2>10. KeepsOrder(Words, n)
    BY <2>8, <2>9, OrderSame
  <2> QED BY <2>2, <2>3, <2>7, <2>8, <2>10
<1> QED BY <1>2, <1>5, <1>6

LEMMA ResumeThreadStep ==
  ASSUME IInv, NEW t \in Threads, ResumeThread(t)
  PROVE  IInv'
<1>1. /\ Words \in WordsSet /\ OtherTypes /\ Consistent(Words, suspend, Threads)
      /\ fault = "none" /\ waking = NoQueue /\ InGuest /\ Noticed(Words)
      /\ Executing /\ Booting /\ suspend[t] \in Nat
  BY TypesSplit, GuestRunning DEF IInv, ResumeThread, OtherTypes
<1>2. CASE suspend[t] # 1
  <2>1. Publish(Words) /\ fault' = fault
    BY <1>2 DEF ResumeThread
  <2>2. CountAfterResume(suspend[t]) \in Nat /\ (CountAfterResume(suspend[t]) = 0 <=> suspend[t] = 0)
    BY <1>1, <1>2 DEF CountAfterResume
  <2>3. suspend' = [suspend EXCEPT ![t] = CountAfterResume(suspend[t])]
    BY DEF ResumeThread
  <2>4. \A u \in Threads : suspend'[u] = 0 <=> suspend[u] = 0
    BY <1>1, <2>2, <2>3 DEF OtherTypes
  <2>5. Words' = Words
    BY <1>1, <2>1, PublishWords
  <2>6. Consistent(Words', suspend', Threads)
    BY <1>1, <2>4, <2>5, SameZeros
  <2>7. suspend' \in [Threads -> Nat]
    BY <1>1, <2>2, <2>3 DEF OtherTypes
  <2>8. TypeOK'
    BY <1>1, <2>1, <2>5, <2>7 DEF ResumeThread, TypeOK, OtherTypes, Words, WordsSet
  <2>9. Executing' /\ Booting'
    BY <1>1, <2>4, <2>5 DEF ResumeThread, Executing, Booting, Words, WordsSet
  <2> QED BY <1>1, <2>1, <2>5, <2>6, <2>8, <2>9 DEF ResumeThread, IInv
<1>3. CASE suspend[t] = 1
  <2>1. state[t] # "running"
    BY <1>1, <1>3 DEF Consistent, Sound, Words
  <2>2. Reschedule(Resumed(t))
    BY <1>3, <2>1 DEF ResumeThread
  <2>3. suspend' = [suspend EXCEPT ![t] = 0]
    BY <1>3 DEF ResumeThread, CountAfterResume
  <2>4. /\ Consistent(Resumed(t), suspend', Threads)
        /\ Noticed(Resumed(t))
        /\ Resumed(t).state = state /\ Resumed(t).running = running
        /\ Resumed(t).current = current
    BY <1>1, <1>3, <2>3, ResumedConsistent
  <2>5. fault' \in {fault, "SELECTTHREAD_IDLE_POLL"}
    BY <2>2 DEF Reschedule, SelectThread
  <2>6. suspend' \in [Threads -> Nat]
    BY <1>1, <2>3 DEF OtherTypes
  <2>7. OtherTypes' /\ waking' = NoQueue
    BY <1>1, <2>5, <2>6 DEF ResumeThread, OtherTypes
  <2>8. ASSUME Words' = Resumed(t) PROVE Executing' /\ Booting'
    <3>1. state' = state /\ running' = running /\ current' = current
      BY <2>4, <2>8 DEF Words
    <3>2. parked' = parked /\ idleFlag' = idleFlag
      BY DEF ResumeThread
    <3>3. running # NoThread => state[running] = "running"
      BY <1>1, GuestRunning
    <3> QED BY <1>1, <3>1, <3>2, <3>3 DEF Executing, Booting
  <2> QED BY <1>1, <2>2, <2>4, <2>7, <2>8, AfterReschedule
<1> QED BY <1>2, <1>3

\* OSSuspendThread takes the thread out of its run queue, or keeps it WAITING at the
\* lowest priority, or makes the running thread READY but not runnable.
LEMMA SuspendedConsistent ==
  ASSUME IInv, InGuest, NEW t \in Threads, state[t] \notin Dead, suspend[t] = 0,
         suspend' = [suspend EXCEPT ![t] = @ + 1]
  PROVE  /\ Consistent(Suspended(t), suspend', Threads)
         /\ Noticed(Suspended(t))
         /\ \A u \in Threads \ {t} : Suspended(t).state[u] = state[u]
         /\ Suspended(t).running = running /\ Suspended(t).current = current
         /\ t = running => Suspended(t).state[t] = "ready" /\ Suspended(t).resched
         /\ KeepsOrder(Words, Suspended(t))
<1>1. /\ Words \in WordsSet /\ OtherTypes /\ Consistent(Words, suspend, Threads)
      /\ Noticed(Words) /\ Sound(Words, suspend, t)
  BY TypesSplit, GuestRunning DEF IInv, Consistent
<1>2. state[t] \in {"ready", "running", "waiting"}
  BY <1>1 DEF Words, WordsSet, ThreadStates
<1>3. suspend' \in [Threads -> Nat] /\ suspend'[t] = 1
      /\ \A u \in Threads \ {t} : suspend'[u] = suspend[u]
  BY <1>1 DEF OtherTypes
<1>4. t = running => state[t] = "running"
  BY GuestRunning, ConstantsAssumption
<1>5. CASE state[t] = "running"
  <2> DEFINE v == [Words EXCEPT !.state[t] = "ready", !.resched = TRUE]
  <2>1. Suspended(t) = v
    BY <1>5 DEF Suspended
  <2>2. Consistent(Words, suspend, Threads \ {t})
    BY <1>1, <1>5, TakeUnlinked DEF Belongs, Words
  <2>3. /\ v \in WordsSet /\ v.state = [state EXCEPT ![t] = "ready"]
        /\ v.prio = prio /\ v.queueOf = queueOf /\ v.pending = pending /\ v.queues = queues
        /\ v.running = running /\ v.current = current /\ v.resched = TRUE
    BY <1>1 DEF Words, WordsSet, ThreadStates
  <2> HIDE DEF v
  <2>4. Consistent(v, suspend', Threads \ {t})
    <3>1. SameBut(Words, v, suspend, suspend', t)
      BY <1>1, <1>3, <2>3 DEF SameBut, Words, WordsSet
    <3> QED BY <2>2, <2>3, <3>1, ChangeInHand
  <2>5. v.state[t] = "ready" /\ \A u \in Threads \ {t} : v.state[u] = state[u]
    BY <1>1, <2>3 DEF Words, WordsSet
  <2>6. Consistent(v, suspend', Threads)
    <3>1. \A q \in Queues : ~Belongs(v, suspend', t, q)
      BY <1>3, <2>5 DEF Belongs
    <3>2. Sound(v, suspend', t)
      BY <1>3, <2>5 DEF Sound, Dead
    <3> QED BY <2>4, <3>1, <3>2, PutUnlinked
  <2>7. KeepsOrder(Words, v)
    BY <1>1, <2>3, OrderStarts, OrderSame DEF Words
  <2> QED BY <2>1, <2>3, <2>5, <2>6, <2>7 DEF Noticed
<1>6. CASE state[t] = "ready"
  <2> DEFINE r == RemoveFromQueue(Words, t)
  <2>1. Suspended(t) = r
    BY <1>6 DEF Suspended
  <2>2. Consistent(r, suspend, Threads \ {t})
    BY <1>1, <1>6, TakeLinked DEF Words
  <2>3. /\ r.state = state /\ r.prio = prio /\ r.resched = resched
        /\ r.running = running /\ r.current = current /\ r.pending \subseteq pending
    BY <1>1 DEF RemoveFromQueue, Words, WordsSet
  <2> HIDE DEF r
  <2>4. r \in WordsSet
    BY <2>2 DEF Consistent
  <2>5. Consistent(r, suspend', Threads \ {t})
    <3>1. SameBut(r, r, suspend, suspend', t)
      BY <1>3 DEF SameBut
    <3> QED BY <2>2, <2>4, <3>1, ChangeInHand
  <2>6. Consistent(r, suspend', Threads)
    <3>1. \A q \in Queues : ~Belongs(r, suspend', t, q)
      BY <1>3, <1>6, <2>3 DEF Belongs
    <3>2. Sound(r, suspend', t)
      BY <1>3, <1>6, <2>3 DEF Sound, Dead
    <3> QED BY <2>5, <3>1, <3>2, PutUnlinked
  <2>7. Noticed(r)
    BY <1>1, <2>3 DEF Noticed, Words
  <2>8. KeepsOrder(Words, r)
    BY <1>1, <1>6, OrderStarts, OrderRemoved DEF r, Words
  <2> QED BY <1>4, <1>6, <2>1, <2>3, <2>6, <2>7, <2>8
<1>7. CASE state[t] = "waiting"
  <2> DEFINE r == RemoveFromQueue(Words, t)
             v == [r EXCEPT !.prio[t] = LowestPriority]
             q == queueOf[t]
             i == InsertByPriority(v, q, t)
  <2>1. q \in WaitQueues
    BY <1>1, <1>7 DEF Sound, Words
  <2>2. Consistent(r, suspend, Threads \ {t})
    BY <1>1, <1>7, TakeLinked DEF Words
  <2>3. /\ r.state = state /\ r.prio = prio /\ r.resched = resched
        /\ r.running = running /\ r.current = current /\ r.pending \subseteq pending
    BY <1>1 DEF RemoveFromQueue, Words, WordsSet
  <2>4. Suspended(t) = i
    BY <1>7 DEF Suspended
  <2> HIDE DEF r
  <2>5. r \in WordsSet
    BY <2>2 DEF Consistent
  <2>6. /\ v \in WordsSet /\ v.prio = [prio EXCEPT ![t] = LowestPriority]
        /\ v.state = state /\ v.resched = resched /\ v.running = running /\ v.current = current
        /\ v.queueOf = r.queueOf /\ v.pending = r.pending /\ v.queues = r.queues
    <3>1. LowestPriority \in 0 .. LowestPriority
      BY QueuesAssumption
    <3> QED BY <2>3, <2>5, <3>1 DEF WordsSet
  <2> HIDE DEF v
  <2>7. Consistent(v, suspend', Threads \ {t})
    <3>1. SameBut(r, v, suspend, suspend', t)
      BY <1>1, <1>3, <2>3, <2>6 DEF SameBut, Words, WordsSet
    <3> QED BY <2>2, <2>6, <3>1, ChangeInHand
  <2>8. /\ q \in Queues /\ t \in Threads
        /\ \/ v.state[t] = "waiting" /\ q \in WaitQueues
           \/ v.state[t] = "ready" /\ suspend'[t] = 0 /\ v.prio[t] = q
        /\ suspend'[t] = 0 => v.prio[t] \in Priorities
        /\ v.state[t] = "waiting" /\ suspend'[t] # 0 => v.prio[t] = LowestPriority
    BY <1>1, <1>3, <1>7, <2>1, <2>6 DEF Words, WordsSet
  <2>9. Consistent(i, suspend', Threads)
    BY ONLY <2>7, <2>8, PutByPriority DEF i
  <2>10. /\ i.state = v.state /\ i.prio = v.prio /\ i.running = v.running
         /\ i.current = v.current /\ i.resched = v.resched /\ i.pending = v.pending
    BY <2>1, <2>6, QueuesAssumption DEF InsertByPriority, WordsSet
  <2> HIDE DEF i
  <2>11. Noticed(i)
    <3>1. running # NoThread => i.prio[running] = prio[running]
      BY <1>1, <1>4, <1>7, <2>6, <2>10 DEF Words, WordsSet
    <3> QED BY <1>1, <2>3, <2>6, <2>10, <3>1 DEF Noticed, Words
  <2>12. KeepsOrder(Words, i)
    <3>1. KeepsOrder(Words, r)
      BY <1>1, <1>7, OrderStarts, OrderRemoved DEF r, Words
    <3>2. SameBut(r, v, suspend, suspend', t)
      BY <1>1, <1>3, <2>3, <2>6 DEF SameBut, Words, WordsSet
    <3>3. KeepsOrder(Words, v)
      BY <2>2, <3>1, <3>2, OrderInHand
    <3>4. v.prio[t] # Words.prio[t]
      BY <1>1, <2>6, QueuesAssumption DEF Sound, Words, WordsSet
    <3> QED BY <2>1, <2>7, <3>3, <3>4, OrderInserted DEF IsNew, i
  <2> QED BY <1>4, <1>7, <2>4, <2>6, <2>9, <2>10, <2>11, <2>12
<1> QED BY <1>2, <1>5, <1>6, <1>7

LEMMA SuspendThreadStep ==
  ASSUME IInv, NEW t \in Threads, SuspendThread(t)
  PROVE  IInv'
<1> DEFINE w == IF suspend[t] = 0 THEN Suspended(t) ELSE Words
<1>1. /\ Words \in WordsSet /\ OtherTypes /\ Consistent(Words, suspend, Threads)
      /\ fault = "none" /\ waking = NoQueue /\ InGuest /\ Noticed(Words)
      /\ Booting /\ state[t] \notin Dead
      /\ (t = running => idleFlag = 0 /\ current = running)
      /\ running # NoThread => state[running] = "running" /\ suspend[running] = 0
      /\ suspend' = [suspend EXCEPT ![t] = @ + 1] /\ Reschedule(w)
  BY TypesSplit, GuestRunning DEF IInv, SuspendThread
<1>2. /\ Consistent(w, suspend', Threads) /\ Noticed(w)
      /\ \A u \in Threads \ {t} : w.state[u] = state[u]
      /\ w.running = running /\ w.current = current
      /\ t = running => w.state[t] = "ready" /\ w.resched
  <2>1. CASE suspend[t] = 0
    BY <1>1, <2>1, SuspendedConsistent
  <2>2. CASE suspend[t] # 0
    <3>1. \A u \in Threads : suspend'[u] = 0 <=> suspend[u] = 0
      BY <1>1, <2>2 DEF OtherTypes
    <3>2. t # running
      BY <1>1, <2>2, ConstantsAssumption
    <3> QED BY <1>1, <2>2, <3>1, <3>2, SameZeros DEF Words
  <2> QED BY <2>1, <2>2
<1> HIDE DEF w
<1>3. fault' \in {fault, "SELECTTHREAD_IDLE_POLL"}
  BY <1>1 DEF Reschedule, SelectThread
<1>4. suspend' \in [Threads -> Nat]
  BY <1>1 DEF OtherTypes
<1>5. OtherTypes' /\ waking' = NoQueue
  BY <1>1, <1>3, <1>4 DEF SuspendThread, OtherTypes
<1>6. ASSUME Words' = w, w.resched => Declines(FALSE, w) PROVE Executing' /\ Booting'
  <2>1. /\ state' = w.state /\ running' = running /\ current' = current
        /\ parked' = parked /\ idleFlag' = idleFlag
    BY <1>2, <1>6 DEF Words, SuspendThread
  <2>2. t # running
    BY <1>1, <1>2, <1>6, ConstantsAssumption DEF Declines
  <2>3. running # NoThread => state'[running] = "running"
    BY <1>1, <1>2, <2>1, <2>2 DEF Words, WordsSet
  <2>4. running = NoThread => state'[DefaultThread] = "none"
    BY <1>1, <1>2, <2>1, ConstantsAssumption DEF Booting, Dead
  <2> QED BY <1>1, <2>1, <2>3, <2>4 DEF Executing, Booting
<1> QED BY <1>1, <1>2, <1>5, <1>6, AfterReschedule

-----------------------------------------------------------------------------
(* The theorems.                                                            *)

\* Every step keeps the invariant.
THEOREM NextKeepsIInv == IInv /\ [Next]_vars => IInv'
<1> SUFFICES ASSUME IInv, [Next]_vars PROVE IInv'
  OBVIOUS
<1>1. ASSUME NEW p \in Priorities, InitDefaultThread(p) PROVE IInv'
  BY <1>1, InitDefaultThreadStep
<1>2. ASSUME NEW t \in Threads, NEW p \in Priorities, CreateThread(t, p) PROVE IInv'
  BY <1>2, CreateThreadStep
<1>3. ASSUME NEW t \in Threads, ResumeThread(t) PROVE IInv'
  BY <1>3, ResumeThreadStep
<1>4. ASSUME NEW q \in WaitQueues, SleepThread(q) PROVE IInv'
  BY <1>4, SleepThreadStep
<1>5. CASE SleepUndone
  BY <1>5, SleepUndoneStep
<1>6. CASE WakeHead
  BY <1>6, WakeHeadStep
<1>7. CASE WakeDone
  BY <1>7, WakeDoneStep
<1>8. ASSUME NEW t \in Threads, SuspendThread(t) PROVE IInv'
  BY <1>8, SuspendThreadStep
<1>9. CASE YieldThread
  BY <1>9, YieldThreadStep
<1>10. ASSUME NEW final \in Dead, ExitThread(final) PROVE IInv'
  BY <1>10, ExitThreadStep
<1>11. ASSUME NEW t \in Threads, ReapThread(t) PROVE IInv'
  BY <1>11, ReapThreadStep
<1>12. CASE \/ SleepRefused \/ SleepReturns \/ (\E q \in WaitQueues : WakeupThread(q))
            \/ DisableScheduler \/ EnableScheduler \/ EnterCallback \/ LeaveCallback
            \/ Aborted \/ UNCHANGED vars
  BY <1>12, QuietActions DEF Aborted
<1> QED BY <1>1, <1>2, <1>3, <1>4, <1>5, <1>6, <1>7, <1>8, <1>9, <1>10, <1>11, <1>12 DEF Next

\* The inductive invariant holds in every reachable state.
THEOREM Invariance == Spec => []IInv
BY InitIInv, NextKeepsIInv, PTL DEF Spec

\* The guest words keep their types.
THEOREM TypeCorrect == Spec => []TypeOK
<1>1. IInv => TypeOK
  BY DEF IInv
<1> QED BY <1>1, Invariance, PTL

\* No OSThread is linked twice.
THEOREM LinkedAtMostOnce == Spec => []LinkedOnce
<1>1. IInv => LinkedOnce
  <2> SUFFICES ASSUME IInv, NEW q1 \in Queues, NEW q2 \in Queues,
                      NEW i \in DOMAIN queues[q1], NEW j \in DOMAIN queues[q2],
                      queues[q1][i] = queues[q2][j]
               PROVE  q1 = q2 /\ i = j
    BY DEF LinkedOnce
  <2> DEFINE t == queues[q1][i]
  <2>1. Lists(Words, suspend, Threads) /\ \A u \in Threads : Sound(Words, suspend, u)
    BY DEF IInv, Consistent
  <2>2. t \in Range(queues[q1]) /\ t \in Range(queues[q2])
    BY DEF Range
  <2>3. t \in Threads /\ Belongs(Words, suspend, t, q1) /\ Belongs(Words, suspend, t, q2)
    BY <2>1, <2>2 DEF Lists, Words
  <2>4. q1 = q2
    BY <2>1, <2>3 DEF Belongs, Sound, Words
  <2>5. Distinct(queues[q1])
    BY <2>1 DEF Lists, Words
  <2> QED BY <2>4, <2>5 DEF Distinct
<1> QED BY <1>1, Invariance, PTL

\* A run queue holds exactly the runnable READY threads of its priority, a wait
\* queue exactly the WAITING threads whose queue field names it.
LEMMA QueueOfInv ==
  ASSUME IInv, NEW q \in Queues, NEW t \in Threads
  PROVE  (\E i \in DOMAIN queues[q] : queues[q][i] = t) <=> Belongs(Words, suspend, t, q)
<1>1. Range(queues[q]) = {u \in Threads : Belongs(Words, suspend, u, q)}
  BY DEF IInv, Consistent, Lists, Words
<1> QED BY <1>1 DEF Range

\* A run queue holds only READY threads of its priority that are not suspended.
THEOREM RunQueuesRight == Spec => []RunQueueContents
<1>1. IInv => RunQueueContents
  <2> SUFFICES ASSUME IInv, NEW p \in Priorities, NEW i \in DOMAIN queues[p]
               PROVE  LET t == queues[p][i]
                      IN  state[t] = "ready" /\ suspend[t] = 0 /\ prio[t] = p /\ queueOf[t] = p
    BY DEF RunQueueContents
  <2> DEFINE t == queues[p][i]
  <2>1. t \in {u \in Threads : Belongs(Words, suspend, u, p)}
    BY DEF IInv, Consistent, Lists, Words, Range
  <2>2. Sound(Words, suspend, t)
    BY <2>1 DEF IInv, Consistent
  <2> QED BY <2>1, <2>2, QueuesAssumption DEF Belongs, Sound, Words
<1> QED BY <1>1, Invariance, PTL

\* A wait queue holds only WAITING threads whose queue field names it.
THEOREM WaitQueuesRight == Spec => []WaitQueueContents
<1>1. IInv => WaitQueueContents
  <2> SUFFICES ASSUME IInv, NEW q \in WaitQueues, NEW i \in DOMAIN queues[q]
               PROVE  state[queues[q][i]] = "waiting" /\ queueOf[queues[q][i]] = q
    BY DEF WaitQueueContents
  <2>1. queues[q][i] \in {u \in Threads : Belongs(Words, suspend, u, q)}
    BY DEF IInv, Consistent, Lists, Words, Range
  <2>2. Sound(Words, suspend, queues[q][i])
    BY <2>1 DEF IInv, Consistent
  <2> QED BY <2>1, <2>2, QueuesAssumption DEF Belongs, Sound, Words
<1> QED BY <1>1, Invariance, PTL

\* A queue holds only threads that belong in it.
THEOREM QueuesRight == Spec => []QueueContents
BY RunQueuesRight, WaitQueuesRight, PTL DEF QueueContents

\* The pending mask names exactly the run queues that hold a thread.
THEOREM PendingMaskExact == Spec => []PendingExact
<1>1. IInv => PendingExact
  BY DEF IInv, Consistent, Mask, Words, WordsSet, PendingExact
<1> QED BY <1>1, Invariance, PTL

\* No runnable thread is missing from its run queue, no waiting one from its wait
\* queue.
THEOREM NobodyLost == Spec => []NoThreadLost
<1>1. IInv => NoThreadLost
  <2> SUFFICES ASSUME IInv, NEW t \in Threads
               PROVE  /\ state[t] = "ready" /\ suspend[t] = 0
                           => \E i \in DOMAIN queues[prio[t]] : queues[prio[t]][i] = t
                      /\ state[t] = "waiting"
                           => /\ queueOf[t] \in WaitQueues
                              /\ \E i \in DOMAIN queues[queueOf[t]] : queues[queueOf[t]][i] = t
    BY DEF NoThreadLost
  <2>1. Sound(Words, suspend, t)
    BY DEF IInv, Consistent
  <2>2. CASE state[t] = "ready" /\ suspend[t] = 0
    <3>1. prio[t] \in Queues /\ Belongs(Words, suspend, t, prio[t])
      BY <2>1, <2>2 DEF Sound, Belongs, Words
    <3> QED BY <2>2, <3>1, QueueOfInv
  <2>3. CASE state[t] = "waiting"
    <3>1. queueOf[t] \in WaitQueues /\ queueOf[t] \in Queues /\ Belongs(Words, suspend, t, queueOf[t])
      BY <2>1, <2>3 DEF Sound, Belongs, Words
    <3> QED BY <2>3, <3>1, QueueOfInv
  <2> QED BY <2>2, <2>3
<1> QED BY <1>1, Invariance, PTL

\* At most the running thread is RUNNING, and it is not suspended.
THEOREM OneThreadRunning == Spec => []OneRunning
<1>1. IInv => OneRunning
  BY DEF IInv, Consistent, Sound, Words, OneRunning
<1> QED BY <1>1, Invariance, PTL

\* Guest code executes only for a RUNNING thread.
THEOREM GuestCodeRunning == Spec => []ExecutingIsRunning
<1>1. IInv => ExecutingIsRunning
  BY GuestRunning DEF ExecutingIsRunning
<1> QED BY <1>1, Invariance, PTL

\* Guest code executes only for the one thread that is RUNNING.
THEOREM RunningThreadExecutes == Spec => []RunningExecutes
BY OneThreadRunning, GuestCodeRunning, PTL DEF RunningExecutes

\* A more urgent pending thread always comes with a reschedule request.
THEOREM RescheduleNoticed == Spec => []NoMissedReschedule
<1>1. IInv => NoMissedReschedule
  BY GuestRunning DEF NoMissedReschedule, Noticed, Words
<1> QED BY <1>1, Invariance, PTL

\* Wait queues stay in priority order.
THEOREM WaitQueuesSorted == Spec => []WaitQueueSorted
<1>1. IInv => WaitQueueSorted
  BY DEF IInv, Consistent, Sorted, Ordered, Words, WaitQueueSorted
<1> QED BY <1>1, Invariance, PTL

\* A handler that ends in SelectThread changes the running thread only to one that
\* is at least as urgent as every thread left queued.
LEMMA SelectsUrgent ==
  ASSUME NEW w, NEW force, Consistent(w, suspend', Threads), SelectThread(force, w),
         running' # w.running
  PROVE  \A p \in pending' : prio'[running'] <= p
<1>1. \/ Declines(force, w) /\ Words' = w /\ fault' = fault
      \/ fault' = "SELECTTHREAD_IDLE_POLL" /\ running' = w.running /\ running' # NoThread
      \/ fault' = fault /\ Switched'
  BY SelectThreadStep
<1> QED BY <1>1 DEF Switched, Words

LEMMA ReschedulesUrgent ==
  ASSUME NEW w, Consistent(w, suspend', Threads), Reschedule(w), running' # w.running
  PROVE  \A p \in pending' : prio'[running'] <= p
BY SelectsUrgent DEF Reschedule, Publish

\* Whoever gets the processor is at least as urgent as everyone left queued.
THEOREM MostUrgentSelected == Spec => SelectsMostUrgent
<1>1. ASSUME IInv, Next, running # NoThread, running' # running
      PROVE  \A p \in pending' : prio'[running'] <= p
  <2>1. Consistent(Words, suspend, Threads) /\ Words.running = running /\ Words \in WordsSet
    BY <1>1, TypesSplit DEF IInv, Words
  <2>2. ASSUME NEW t \in Threads, ResumeThread(t) PROVE \A p \in pending' : prio'[running'] <= p
    <3>1. InGuest /\ suspend' = [suspend EXCEPT ![t] = CountAfterResume(@)]
      BY <2>2 DEF ResumeThread
    <3>2. suspend[t] = 1 /\ Reschedule(Resumed(t))
      BY <2>2, <1>1 DEF ResumeThread, Publish, Words
    <3>3. suspend' = [suspend EXCEPT ![t] = 0]
      BY <3>1, <3>2 DEF CountAfterResume
    <3>4. Consistent(Resumed(t), suspend', Threads) /\ Resumed(t).running = running
      BY <1>1, <3>1, <3>2, <3>3, ResumedConsistent
    <3> QED BY <1>1, <3>2, <3>4, ReschedulesUrgent
  <2>3. ASSUME NEW q \in WaitQueues, SleepThread(q) PROVE \A p \in pending' : prio'[running'] <= p
    <3>1. InGuest /\ SelectThread(FALSE, Asleep(q)) /\ suspend' = suspend
      BY <2>3 DEF SleepThread, Asleep
    <3>2. Adopted.running = running
      BY <1>1 DEF Adopted, Words
    <3>3. Consistent(Asleep(q), suspend, Threads) /\ Asleep(q).running = running
      BY <1>1, <3>1, <3>2, AsleepConsistent
    <3> QED BY <1>1, <3>1, <3>3, SelectsUrgent
  <2>4. ASSUME NEW t \in Threads, SuspendThread(t) PROVE \A p \in pending' : prio'[running'] <= p
    <3>1. /\ InGuest /\ state[t] \notin Dead /\ suspend' = [suspend EXCEPT ![t] = @ + 1]
          /\ Reschedule(IF suspend[t] = 0 THEN Suspended(t) ELSE Words)
      BY <2>4 DEF SuspendThread
    <3>2. CASE suspend[t] = 0
      <4>1. Consistent(Suspended(t), suspend', Threads) /\ Suspended(t).running = running
        BY <1>1, <3>1, <3>2, SuspendedConsistent
      <4> QED BY <1>1, <3>1, <3>2, <4>1, ReschedulesUrgent
    <3>3. CASE suspend[t] # 0
      <4>1. \A u \in Threads : suspend'[u] = 0 <=> suspend[u] = 0
        <5>1. suspend \in [Threads -> Nat]
          BY <1>1 DEF IInv, TypeOK
        <5> QED BY ONLY <5>1, <3>1, <3>3
      <4>2. Consistent(Words, suspend', Threads)
        BY <2>1, <4>1, SameZeros
      <4> QED BY <1>1, <2>1, <3>1, <3>3, <4>2, ReschedulesUrgent
    <3> QED BY <3>2, <3>3
  <2>5. ASSUME NEW final \in Dead, ExitThread(final) PROVE \A p \in pending' : prio'[running'] <= p
    <3>1. InGuest /\ current = running /\ SelectThread(FALSE, Exited(final)) /\ suspend' = suspend
      BY <2>5 DEF ExitThread, Exited
    <3>2. Consistent(Exited(final), suspend, Threads) /\ Exited(final).running = running
      BY <1>1, <3>1, ExitedConsistent
    <3> QED BY <1>1, <3>1, <3>2, SelectsUrgent
  <2>6. CASE YieldThread
    BY <1>1, <2>1, <2>6, SelectsUrgent DEF YieldThread
  <2>7. CASE WakeDone
    BY <1>1, <2>1, <2>7, ReschedulesUrgent DEF WakeDone
  <2>8. CASE SleepUndone \/ WakeHead
    <3>1. running' = running
      BY <2>1, <2>8 DEF SleepUndone, WakeHead, Publish, RemoveFromQueue, LinkOnRunQueue, WordsSet
    <3> QED BY <1>1, <3>1
  <2>9. CASE SleepRefused
    BY <1>1, <2>9 DEF SleepRefused, Adopted, Publish, Words
  <2>10. CASE \/ \E p \in Priorities : InitDefaultThread(p)
              \/ \E t \in Threads, p \in Priorities : CreateThread(t, p)
              \/ SleepReturns \/ (\E q \in WaitQueues : WakeupThread(q))
              \/ (\E t \in Threads : ReapThread(t))
              \/ DisableScheduler \/ EnableScheduler \/ EnterCallback \/ LeaveCallback \/ Aborted
    BY <1>1, <2>10 DEF InitDefaultThread, CreateThread, SleepReturns, WakeupThread, ReapThread,
       DisableScheduler, EnableScheduler, EnterCallback, LeaveCallback, Aborted, vars
  <2> QED BY <1>1, <2>2, <2>3, <2>4, <2>5, <2>6, <2>7, <2>8, <2>9, <2>10 DEF Next
<1>2. IInv /\ [Next]_vars
        => [running # NoThread /\ running' # running
              => \A p \in pending' : prio'[running'] <= p]_vars
  BY <1>1
<1> QED BY <1>2, Invariance, PTL DEF Spec, SelectsMostUrgent

-----------------------------------------------------------------------------
(* Preemption.                                                              *)

\* SelectThread(0) takes the processor from a RUNNING thread only for a strictly
\* more urgent one.
LEMMA SelectsMoreUrgent ==
  ASSUME NEW w, Consistent(w, suspend', Threads), SelectThread(FALSE, w),
         w.running # NoThread => w.state[w.running] = "running"
  PROVE  running' = w.running \/ prio'[running'] < w.prio[w.running]
<1>1. \/ Declines(FALSE, w) /\ Words' = w /\ fault' = fault
      \/ fault' = "SELECTTHREAD_IDLE_POLL" /\ running' = w.running /\ running' # NoThread
      \/ /\ fault' = fault /\ Switched' /\ ~Declines(FALSE, w)
         /\ \A p \in w.pending : prio'[running'] <= p
  BY SelectThreadStep
<1>2. CASE Words' = w
  BY <1>2 DEF Words
<1>3. CASE Switched' /\ ~Declines(FALSE, w) /\ \A p \in w.pending : prio'[running'] <= p
  <2>1. /\ w \in WordsSet /\ w.running \in Threads
        /\ ~(w.prio[w.running] <= Cntlzw(w.pending))
    BY <1>3 DEF Declines, Consistent, WordsSet
  <2>2. w.prio[w.running] \in 0 .. LowestPriority /\ w.pending \in SUBSET Nat
    BY <2>1, QueuesAssumption DEF WordsSet
  <2>3. w.pending # {}
    BY <2>1, <2>2 DEF Cntlzw
  <2>4. Cntlzw(w.pending) \in w.pending /\ Cntlzw(w.pending) \in Nat
    BY <2>2, <2>3, MinProperties DEF Cntlzw
  <2>5. prio'[running'] \in Nat
    <3>1. Words' \in WordsSet /\ running' \in Threads
      BY <1>3, SelectThreadStep DEF Consistent, Switched
    <3> QED BY <3>1, QueuesAssumption DEF Words, WordsSet
  <2>6. prio'[running'] <= Cntlzw(w.pending)
    BY <1>3, <2>4
  <2> QED BY ONLY <2>1, <2>2, <2>4, <2>5, <2>6, QueuesAssumption
<1> QED BY <1>1, <1>2, <1>3

\* Resuming another thread and the end of OSWakeupThread preempt the running thread
\* only for a strictly more urgent one.
THEOREM PreemptionRight == Spec => PreemptsOnlyForMoreUrgent
<1>1. ASSUME IInv, NEW w, Reschedule(w), Consistent(w, suspend', Threads),
             w.running = running, running # NoThread => w.state[running] = "running",
             running # NoThread => w.prio[running] = prio[running]
      PROVE  running' = running \/ prio'[running'] < prio[running]
  <2>1. CASE w.resched
    <3>1. SelectThread(FALSE, w)
      BY <1>1, <2>1 DEF Reschedule
    <3>2. running' = w.running \/ prio'[running'] < w.prio[w.running]
      BY <1>1, <3>1, SelectsMoreUrgent
    <3>3. running = NoThread => running' = running
      BY <1>1, <3>1 DEF SelectThread, Declines, Publish
    <3> QED BY <1>1, <3>2, <3>3
  <2>2. CASE ~w.resched
    BY <1>1, <2>2 DEF Reschedule, Publish
  <2> QED BY <2>1, <2>2
<1>2. ASSUME IInv, NEW t \in Threads, ResumeThread(t), t # running
      PROVE  running' = running \/ prio'[running'] < prio[running]
  <2>1. InGuest /\ suspend' = [suspend EXCEPT ![t] = CountAfterResume(@)] /\ TypeOK
    BY <1>2 DEF ResumeThread, IInv
  <2>2. running # NoThread => state[running] = "running"
    BY <1>2, <2>1, GuestRunning
  <2>3. CASE suspend[t] # 1 \/ state[t] = "running"
    BY <1>2, <2>3 DEF ResumeThread, Publish, Words
  <2>4. CASE suspend[t] = 1 /\ state[t] # "running"
    <3>1. Reschedule(Resumed(t))
      BY <1>2, <2>4 DEF ResumeThread
    <3>2. suspend' = [suspend EXCEPT ![t] = 0]
      BY <2>1, <2>4 DEF CountAfterResume
    <3>3. /\ Consistent(Resumed(t), suspend', Threads)
          /\ Resumed(t).state = state /\ Resumed(t).running = running
      BY <1>2, <2>1, <2>4, <3>2, ResumedConsistent
    <3>4. running # NoThread => Resumed(t).prio[running] = prio[running]
      BY <1>2, <2>1 DEF Resumed, InsertByPriority, RemoveFromQueue, Words, TypeOK
    <3> QED BY <1>1, <1>2, <2>2, <3>1, <3>3, <3>4
  <2> QED BY <2>3, <2>4
<1>3. ASSUME IInv, WakeDone
      PROVE  running' = running \/ prio'[running'] < prio[running]
  <2>1. /\ Consistent(Words, suspend', Threads) /\ Reschedule(Words)
        /\ Words.running = running /\ Words.state = state /\ Words.prio = prio
    BY <1>3 DEF IInv, WakeDone, Words
  <2>2. running # NoThread => state[running] = "running"
    BY <1>3 DEF IInv, WakeDone, Executing, Caller
  <2> QED BY <1>1, <1>3, <2>1, <2>2
<1>4. IInv /\ [Next]_vars
        => [(\E t \in Threads : ResumeThread(t) /\ t # running) \/ WakeDone
              => running' = running \/ prio'[running'] < prio[running]]_vars
  BY <1>2, <1>3
<1> QED BY <1>4, Invariance, PTL DEF Spec, PreemptsOnlyForMoreUrgent

-----------------------------------------------------------------------------
(* The list of all threads.                                                 *)

\* The list names every thread but the default one that exists, once; the default
\* thread is not in it before it runs.
ListInv ==
  /\ Distinct(threadList)
  /\ \A t \in Threads \ {DefaultThread} : state[t] # "none" <=> t \in Range(threadList)
  /\ running = NoThread => DefaultThread \notin Range(threadList)

\* What a handler that creates and reaps nobody says of the words it leaves.
SameThreads(st, run) ==
  /\ \A t \in Threads \ {DefaultThread} : st[t] = "none" <=> state[t] = "none"
  /\ run = NoThread => running = NoThread

LEMMA ListUntouched ==
  ASSUME ListInv, threadList' = threadList, SameThreads(state', running')
  PROVE  ListInv'
BY DEF ListInv, SameThreads

\* SelectThread creates and reaps nobody.
LEMMA SelectedThreads ==
  ASSUME NEW w, NEW force, Consistent(w, suspend', Threads), SelectThread(force, w),
         SameThreads(w.state, w.running)
  PROVE  SameThreads(state', running')
<1>1. \/ Words' = w
      \/ running' = w.running
      \/ Switched'
  BY SelectThreadStep
<1>2. \A u \in Threads : state'[u] = "none" <=> w.state[u] = "none"
  BY SelectThreadStep
<1> QED BY <1>1, <1>2, ConstantsAssumption DEF SameThreads, Words, Switched

LEMMA RescheduledThreads ==
  ASSUME NEW w, Consistent(w, suspend', Threads), Reschedule(w),
         SameThreads(w.state, w.running)
  PROVE  SameThreads(state', running')
<1>1. CASE w.resched
  BY <1>1, SelectedThreads DEF Reschedule
<1>2. CASE ~w.resched
  BY <1>2 DEF Reschedule, Publish
<1> QED BY <1>1, <1>2

\* A thread that did not exist is linked behind the last.
LEMMA ListGrows ==
  ASSUME ListInv, TypeOK, NEW t \in Threads, t \notin Range(threadList),
         threadList' = Append(threadList, t), state'[t] # "none",
         \A u \in Threads \ {t} : state'[u] = state[u],
         running' = NoThread => running = NoThread /\ t # DefaultThread
  PROVE  ListInv'
<1>1. Range(threadList') = Range(threadList) \cup {t} /\ Distinct(threadList')
  BY AppendQueue DEF TypeOK, ListInv
<1> QED BY <1>1 DEF ListInv

\* The first occurrence is the only one.
LEMMA RemoveFirstQueue ==
  ASSUME NEW S, NEW s \in Seq(S), NEW e, Distinct(s)
  PROVE  Range(RemoveFirst(s, e)) = Range(s) \ {e} /\ Distinct(RemoveFirst(s, e))
<1> DEFINE I == {i \in 1 .. Len(s) : s[i] = e}
<1>1. DOMAIN s = 1 .. Len(s)
  BY LenProperties
<1>2. CASE I = {}
  BY <1>1, <1>2 DEF RemoveFirst, Range
<1>3. CASE I # {}
  <2>1. I \in SUBSET Nat
    OBVIOUS
  <2>2. Min(I) \in I
    BY <1>3, <2>1, MinProperties
  <2>3. RemoveFirst(s, e) = RemoveAt(s, Min(I))
    BY <1>3 DEF RemoveFirst, SelectInSeq
  <2>4. Min(I) \in 1 .. Len(s) /\ s[Min(I)] = e
    BY <2>2
  <2> HIDE DEF I
  <2> QED BY <2>3, <2>4, RemoveAtQueue
<1> QED BY <1>2, <1>3

\* A thread that exists no more is taken out.
LEMMA ListShrinks ==
  ASSUME ListInv, TypeOK, NEW t \in Threads, threadList' = RemoveFirst(threadList, t),
         state'[t] = "none",
         \A u \in Threads \ {t} : state'[u] = "none" <=> state[u] = "none",
         running' = NoThread => running = NoThread
  PROVE  ListInv'
<1>1. Range(threadList') = Range(threadList) \ {t} /\ Distinct(threadList')
  BY RemoveFirstQueue DEF TypeOK, ListInv
<1> QED BY <1>1 DEF ListInv

\* OSExitThread: only a detached thread leaves the list.
LEMMA ExitThreadList ==
  ASSUME IInv, ListInv, NEW final \in Dead, ExitThread(final)
  PROVE  ListInv'
<1> DEFINE t == running
           w == Exited(final)
<1>1. /\ TypeOK /\ t \in Threads /\ InGuest /\ state[t] = "running"
      /\ current = running /\ suspend' = suspend /\ SelectThread(FALSE, w)
  BY GuestRunning, ConstantsAssumption DEF IInv, TypeOK, ExitThread, Exited
<1>2. Consistent(w, suspend', Threads) /\ w.running = t
  BY <1>1, ExitedConsistent, ConstantsAssumption
<1>3. w.state = [state EXCEPT ![t] = final]
  BY <1>1 DEF Exited, Words
<1>4. \A u \in Threads : state'[u] = "none" <=> w.state[u] = "none"
  BY <1>1, <1>2, SelectThreadStep
<1>5. running' # NoThread
  <2>1. Words' = w \/ running' = w.running \/ running' \in Threads
    BY <1>1, <1>2, SelectThreadStep DEF Switched
  <2>2. Words' = w => running' = w.running
    BY DEF Words
  <2> QED BY <1>1, <1>2, <2>1, <2>2, ConstantsAssumption
<1> HIDE DEF w
<1>6. CASE final = "none"
  <2>1. threadList' = RemoveFirst(threadList, t)
    BY <1>6 DEF ExitThread
  <2>2. state'[t] = "none" /\ \A u \in Threads \ {t} : state'[u] = "none" <=> state[u] = "none"
    BY <1>1, <1>3, <1>4, <1>6 DEF TypeOK
  <2> QED BY <1>1, <1>5, <2>1, <2>2, ListShrinks
<1>7. CASE final # "none"
  <2>1. threadList' = threadList
    BY <1>7 DEF ExitThread
  <2>2. SameThreads(state', running')
    BY <1>1, <1>3, <1>4, <1>5, <1>7 DEF TypeOK, SameThreads
  <2> QED BY <2>1, <2>2, ListUntouched
<1> QED BY <1>6, <1>7

\* The other handlers create and reap nobody.
LEMMA ListKept ==
  ASSUME IInv, ListInv,
         \/ \E t \in Threads : ResumeThread(t) \/ SuspendThread(t)
         \/ \E q \in WaitQueues : SleepThread(q)
         \/ SleepRefused \/ SleepUndone \/ SleepReturns
         \/ \E q \in WaitQueues : WakeupThread(q)
         \/ WakeHead \/ WakeDone \/ YieldThread
         \/ DisableScheduler \/ EnableScheduler \/ EnterCallback \/ LeaveCallback
         \/ UNCHANGED vars
  PROVE  ListInv'
<1>1. /\ TypeOK /\ Consistent(Words, suspend, Threads) /\ Words \in WordsSet
      /\ Words.state = state /\ Words.running = running
  BY TypesSplit DEF IInv, Words
<1>2. ASSUME NEW t \in Threads, ResumeThread(t) PROVE SameThreads(state', running')
  <2>1. InGuest /\ suspend' = [suspend EXCEPT ![t] = CountAfterResume(@)]
    BY <1>2 DEF ResumeThread
  <2>2. CASE suspend[t] # 1 \/ state[t] = "running"
    BY <1>1, <1>2, <2>2 DEF ResumeThread, Publish, SameThreads
  <2>3. CASE suspend[t] = 1 /\ state[t] # "running"
    <3>1. Reschedule(Resumed(t))
      BY <1>2, <2>3 DEF ResumeThread
    <3>2. suspend' = [suspend EXCEPT ![t] = 0]
      BY <2>1, <2>3 DEF CountAfterResume
    <3>3. /\ Consistent(Resumed(t), suspend', Threads)
          /\ Resumed(t).state = state /\ Resumed(t).running = running
      BY <2>1, <2>3, <3>2, ResumedConsistent
    <3> QED BY <3>1, <3>3, RescheduledThreads DEF SameThreads
  <2> QED BY <2>2, <2>3
<1>3. ASSUME NEW t \in Threads, SuspendThread(t) PROVE SameThreads(state', running')
  <2>1. /\ InGuest /\ state[t] \notin Dead /\ suspend' = [suspend EXCEPT ![t] = @ + 1]
        /\ Reschedule(IF suspend[t] = 0 THEN Suspended(t) ELSE Words)
    BY <1>3 DEF SuspendThread
  <2>2. CASE suspend[t] = 0
    <3>1. /\ Consistent(Suspended(t), suspend', Threads)
          /\ \A u \in Threads \ {t} : Suspended(t).state[u] = state[u]
          /\ Suspended(t).running = running
      BY <2>1, <2>2, SuspendedConsistent
    <3>2. Suspended(t).state[t] # "none"
      BY <1>1, <2>1 DEF Suspended, RemoveFromQueue, InsertByPriority, Words, TypeOK, Dead, ThreadStates
    <3> QED BY <2>1, <2>2, <3>1, <3>2, RescheduledThreads DEF SameThreads, Dead
  <2>3. CASE suspend[t] # 0
    <3>1. \A u \in Threads : suspend'[u] = 0 <=> suspend[u] = 0
      <4>1. suspend \in [Threads -> Nat]
        BY <1>1 DEF TypeOK
      <4> QED BY ONLY <4>1, <2>1, <2>3
    <3>2. Consistent(Words, suspend', Threads)
      BY <1>1, <3>1, SameZeros
    <3> QED BY <1>1, <2>1, <2>3, <3>2, RescheduledThreads DEF SameThreads
  <2> QED BY <2>2, <2>3
<1>4. ASSUME NEW q \in WaitQueues, SleepThread(q) PROVE SameThreads(state', running')
  <2>1. InGuest /\ SelectThread(FALSE, Asleep(q)) /\ suspend' = suspend
    BY <1>4 DEF SleepThread, Asleep
  <2>2. Consistent(Asleep(q), suspend', Threads) /\ Asleep(q).running = Adopted.running
    BY <2>1, AsleepConsistent
  <2>3. Asleep(q).state = [state EXCEPT ![Adopted.running] = "waiting"]
    BY <2>1, AdoptedCaller DEF Asleep, InsertByPriority, WordsSet
  <2>4. /\ Adopted.running \in Threads
        /\ Adopted.running # DefaultThread => state[Adopted.running] # "none"
    <3>1. running = NoThread => Adopted.running = DefaultThread
      BY DEF Adopted
    <3>2. running # NoThread => Adopted.running = running /\ state[running] = "running"
      BY <1>1, <2>1, GuestRunning DEF Adopted
    <3> QED BY <2>1, <3>1, <3>2, AdoptedCaller
  <2>5. SameThreads(Asleep(q).state, Asleep(q).running)
    BY <1>1, <2>2, <2>3, <2>4, ConstantsAssumption DEF SameThreads, TypeOK
  <2> QED BY <2>1, <2>2, <2>5, SelectedThreads
<1>5. ASSUME SleepUndone PROVE SameThreads(state', running')
  <2>1. Caller \in Threads /\ state[Caller] = "waiting" /\ running' = running
    BY <1>1, <1>5, ConstantsAssumption DEF SleepUndone, Publish, RemoveFromQueue, Caller, TypeOK, Words
  <2>2. state' = [state EXCEPT ![Caller] = "running"]
    BY <1>1, <1>5 DEF SleepUndone, Publish, RemoveFromQueue, Words
  <2> QED BY <1>1, <2>1, <2>2 DEF SameThreads, TypeOK
<1>6. ASSUME WakeHead PROVE SameThreads(state', running')
  <2> DEFINE t == Head(queues[waking])
  <2>1. /\ state' = [state EXCEPT ![t] = "ready"] /\ running' = running
    BY <1>1, <1>6 DEF WakeHead, Publish, LinkOnRunQueue, Words
  <2>2. t \in Threads /\ state[t] = "waiting"
    <3>1. waking \in WaitQueues /\ queues[waking] # <<>> /\ queues[waking] \in Seq(Threads)
      BY <1>1, <1>6 DEF WakeHead, TypeOK
    <3>2. t \in Threads /\ Belongs(Words, suspend, t, waking)
      <4>1. Words.queues = queues /\ waking \in Queues
        BY <3>1 DEF Words
      <4> QED BY ONLY <1>1, <3>1, <4>1, HeadBelongs
    <3> QED BY <1>1, <3>1, <3>2, QueuesAssumption DEF Belongs, Consistent, Sound
  <2> QED BY <1>1, <2>1, <2>2 DEF SameThreads, TypeOK
<1>7. ASSUME WakeDone PROVE SameThreads(state', running')
  BY <1>1, <1>7, RescheduledThreads DEF WakeDone, SameThreads
<1>8. ASSUME YieldThread PROVE SameThreads(state', running')
  BY <1>1, <1>8, SelectedThreads DEF YieldThread, SameThreads
<1>9. ASSUME SleepRefused PROVE SameThreads(state', running')
  BY <1>1, <1>9, ConstantsAssumption DEF SleepRefused, Adopted, Publish, SameThreads
<1>10. ASSUME \/ SleepReturns \/ (\E q \in WaitQueues : WakeupThread(q))
              \/ DisableScheduler \/ EnableScheduler \/ EnterCallback \/ LeaveCallback
              \/ UNCHANGED vars
       PROVE  SameThreads(state', running')
  BY <1>10 DEF SleepReturns, WakeupThread, DisableScheduler, EnableScheduler, EnterCallback,
               LeaveCallback, vars, SameThreads
<1>11. threadList' = threadList
  BY DEF ResumeThread, SuspendThread, SleepThread, SleepRefused, SleepUndone, SleepReturns,
         WakeupThread, WakeHead, WakeDone, YieldThread, DisableScheduler, EnableScheduler,
         EnterCallback, LeaveCallback, vars
<1> QED BY <1>2, <1>3, <1>4, <1>5, <1>6, <1>7, <1>8, <1>9, <1>10, <1>11, ListUntouched

\* The list of all threads names every thread that was created and not reaped, once.
THEOREM ThreadListRight == Spec => []ThreadListExact
<1>1. Init => ListInv
  <2> SUFFICES ASSUME Init PROVE ListInv
    OBVIOUS
  <2>1. threadList = <<>> /\ DOMAIN <<>> = {}
    BY DEF Init
  <2>2. Range(threadList) = {} /\ Distinct(threadList)
    BY <2>1 DEF Range, Distinct
  <2> QED BY <2>2 DEF Init, ListInv
<1>2. IInv /\ ListInv /\ [Next]_vars => ListInv'
  <2> SUFFICES ASSUME IInv, ListInv, [Next]_vars PROVE ListInv'
    OBVIOUS
  <2>1. TypeOK
    BY DEF IInv
  <2>2. ASSUME NEW p \in Priorities, InitDefaultThread(p) PROVE ListInv'
    <3>1. /\ threadList' = Append(threadList, DefaultThread) /\ DefaultThread \in Threads
          /\ running' # NoThread /\ DefaultThread \notin Range(threadList)
      BY <2>2, ConstantsAssumption DEF InitDefaultThread, LinkedLast, ListInv
    <3>2. state' = [state EXCEPT ![DefaultThread] = "running"]
      BY <2>2 DEF InitDefaultThread
    <3> QED BY <2>1, <3>1, <3>2, ListGrows DEF TypeOK
  <2>3. ASSUME NEW t \in Threads, NEW p \in Priorities, CreateThread(t, p) PROVE ListInv'
    <3>1. /\ threadList' = Append(threadList, t) /\ running' = running
          /\ t # DefaultThread /\ t \notin Range(threadList)
      BY <2>3 DEF CreateThread, LinkedLast, ListInv
    <3>2. state' = [state EXCEPT ![t] = "ready"]
      BY <2>3 DEF CreateThread
    <3> QED BY <2>1, <3>1, <3>2, ListGrows DEF TypeOK
  <2>4. ASSUME NEW t \in Threads, ReapThread(t) PROVE ListInv'
    <3>1. threadList' = RemoveFirst(threadList, t) /\ running' = running
      BY <2>4 DEF ReapThread
    <3>2. state' = [state EXCEPT ![t] = "none"]
      BY <2>4 DEF ReapThread
    <3> QED BY <2>1, <3>1, <3>2, ListShrinks DEF TypeOK
  <2>5. ASSUME NEW final \in Dead, ExitThread(final) PROVE ListInv'
    BY <2>5, ExitThreadList
  <2> QED BY <2>2, <2>3, <2>4, <2>5, ListKept DEF Next, Aborted
<1>3. ListInv => ThreadListExact
  BY DEF ListInv, ThreadListExact, Distinct, Range
<1> QED BY <1>1, <1>2, <1>3, Invariance, PTL DEF Spec

-----------------------------------------------------------------------------
(* First come, first served: the steps.                                     *)

LEMMA RescheduledOrder ==
  ASSUME NEW w, Consistent(w, suspend', Threads), KeepsOrder(Words, w), Reschedule(w),
         w.running \in Threads /\ w.state[w.running] = "running"
           => \A q \in Queues : w.running \notin Range(queues[q])
  PROVE  KeepsOrder(Words, Words')
<1>1. Words.queues = queues
  BY DEF Words
<1>2. CASE w.resched
  BY <1>1, <1>2, OrderSelected DEF Reschedule
<1>3. CASE ~w.resched
  <2>1. Words' = w
    BY <1>3, PublishWords DEF Reschedule, Consistent
  <2> QED BY <2>1
<1> QED BY <1>2, <1>3

\* A step that leaves the lists and the priorities of their members.
LEMMA QuietOrder ==
  ASSUME Words \in WordsSet, queues' = queues,
         \A q \in Queues : \A u \in Range(queues[q]) : prio'[u] = prio[u]
  PROVE  KeepsOrder(Words, Words')
<1>1. Words'.queues = Words.queues /\ Words.queues = queues /\ Words.prio = prio /\ Words'.prio = prio'
  BY DEF Words
<1> QED BY <1>1, OrderStarts, OrderSame

\* Every step keeps the order among equals.
LEMMA NextKeepsOrder ==
  ASSUME IInv, [Next]_vars
  PROVE  KeepsOrder(Words, Words')
<1>1. /\ Words \in WordsSet /\ Consistent(Words, suspend, Threads) /\ TypeOK
      /\ Words.running = running /\ Words.queues = queues /\ Words.state = state
      /\ KeepsOrder(Words, Words)
  BY TypesSplit, OrderStarts DEF IInv, Words
<1>2. \A u \in Threads : \A q \in Queues :
        u \in Range(queues[q]) <=> Belongs(Words, suspend, u, q)
  BY <1>1 DEF Consistent, Lists
<1>3. \A u \in Threads : state[u] \notin {"ready", "waiting"}
        => \A q \in Queues : u \notin Range(queues[q])
  BY <1>1, <1>2 DEF Belongs
<1>4. ASSUME NEW t \in Threads, ResumeThread(t) PROVE KeepsOrder(Words, Words')
  <2>1. InGuest /\ suspend' = [suspend EXCEPT ![t] = CountAfterResume(@)]
    BY <1>4 DEF ResumeThread
  <2>2. CASE suspend[t] # 1 \/ state[t] = "running"
    BY <1>1, <1>4, <2>2, PublishWords DEF ResumeThread
  <2>3. CASE suspend[t] = 1 /\ state[t] # "running"
    <3>1. Reschedule(Resumed(t))
      BY <1>4, <2>3 DEF ResumeThread
    <3>2. suspend' = [suspend EXCEPT ![t] = 0]
      BY <2>1, <2>3 DEF CountAfterResume
    <3>3. /\ Consistent(Resumed(t), suspend', Threads) /\ KeepsOrder(Words, Resumed(t))
          /\ Resumed(t).state = state /\ Resumed(t).running = running
      BY <2>1, <2>3, <3>2, ResumedConsistent
    <3> QED BY <1>3, <3>1, <3>3, RescheduledOrder
  <2> QED BY <2>2, <2>3
<1>5. ASSUME NEW t \in Threads, SuspendThread(t) PROVE KeepsOrder(Words, Words')
  <2>1. /\ InGuest /\ state[t] \notin Dead /\ suspend' = [suspend EXCEPT ![t] = @ + 1]
        /\ Reschedule(IF suspend[t] = 0 THEN Suspended(t) ELSE Words)
    BY <1>5 DEF SuspendThread
  <2>2. CASE suspend[t] = 0
    <3>1. /\ Consistent(Suspended(t), suspend', Threads) /\ KeepsOrder(Words, Suspended(t))
          /\ \A u \in Threads \ {t} : Suspended(t).state[u] = state[u]
          /\ Suspended(t).running = running
          /\ t = running => Suspended(t).state[t] = "ready"
      BY <2>1, <2>2, SuspendedConsistent
    <3> QED BY <1>3, <2>1, <2>2, <3>1, RescheduledOrder
  <2>3. CASE suspend[t] # 0
    <3>1. \A u \in Threads : suspend'[u] = 0 <=> suspend[u] = 0
      <4>1. suspend \in [Threads -> Nat]
        BY <1>1 DEF TypeOK
      <4> QED BY ONLY <4>1, <2>1, <2>3
    <3>2. Consistent(Words, suspend', Threads)
      BY <1>1, <3>1, SameZeros
    <3> QED BY <1>1, <1>3, <2>1, <2>3, <3>2, RescheduledOrder
  <2> QED BY <2>2, <2>3
<1>6. ASSUME NEW q \in WaitQueues, SleepThread(q) PROVE KeepsOrder(Words, Words')
  <2>1. InGuest /\ SelectThread(FALSE, Asleep(q))
    BY <1>6 DEF SleepThread, Asleep
  <2>2. /\ Consistent(Asleep(q), suspend, Threads) /\ KeepsOrder(Words, Asleep(q))
        /\ Asleep(q).running = Adopted.running
        /\ Asleep(q).state[Adopted.running] = "waiting"
    BY <2>1, AsleepConsistent
  <2> QED BY <2>1, <2>2, OrderSelected
<1>7. CASE SleepUndone
  <2> DEFINE r == RemoveFromQueue(Words, Caller)
             v == [r EXCEPT !.state[Caller] = "running"]
  <2>1. Caller \in Threads /\ state[Caller] = "waiting" /\ Publish(v)
    BY <1>1, <1>7, ConstantsAssumption DEF SleepUndone, Caller, TypeOK
  <2>2. KeepsOrder(Words, r) /\ r \in WordsSet
    <3>1. Consistent(r, suspend, Threads \ {Caller})
      BY <1>1, <2>1, TakeLinked
    <3> QED BY <1>1, <2>1, <3>1, OrderRemoved DEF Consistent
  <2> HIDE DEF r
  <2>3. v \in WordsSet /\ v.queues = r.queues /\ v.prio = r.prio
    BY <2>2 DEF WordsSet, ThreadStates
  <2> HIDE DEF v
  <2> QED BY <2>1, <2>2, <2>3, OrderSame, PublishWords
<1>8. CASE WakeHead
  <2> DEFINE q == waking
             t == Head(queues[q])
             v == [Words EXCEPT !.queues[q] = Tail(@), !.state[t] = "ready"]
  <2>1. /\ q \in WaitQueues /\ q \in Queues /\ queues[q] # <<>>
        /\ Publish(IF suspend[t] = 0 THEN LinkOnRunQueue(v, t) ELSE v)
    BY <1>1, <1>8 DEF WakeHead, TypeOK
  <2>2. t \in Threads /\ Belongs(Words, suspend, t, q) /\ Sound(Words, suspend, t)
    <3>1. t \in Threads /\ Belongs(Words, suspend, t, q)
      BY ONLY <1>1, <2>1, HeadBelongs
    <3> QED BY <1>1, <3>1 DEF Consistent
  <2> HIDE DEF t
  <2>3. /\ v \in WordsSet /\ v.queues = [queues EXCEPT ![q] = Tail(@)] /\ v.prio = prio
        /\ Words.prio = prio
    <3>1. Tail(queues[q]) \in Seq(Threads)
      BY <1>1, <2>1, HeadTailProperties DEF TypeOK
    <3> QED BY <1>1, <2>2, <3>1 DEF Words, WordsSet, ThreadStates
  <2> HIDE DEF v
  <2>4. KeepsOrder(Words, v)
    <3>1. Distinct(queues[q])
      BY <1>1, <2>1 DEF Consistent, Lists
    <3> QED BY <1>1, <2>1, <2>3, <3>1, OrderPopped
  <2>5. CASE suspend[t] = 0
    <3>1. prio[t] \in Priorities /\ IsNew(Words, v, prio[t], t)
      <4>1. prio[t] \in Priorities
        BY <2>2, <2>3, <2>5 DEF Sound
      <4>2. ~Belongs(Words, suspend, t, prio[t])
        BY <1>1, <2>1, <2>2, <4>1, QueuesAssumption DEF Belongs, Sound
      <4> QED BY <1>1, <1>2, <2>2, <4>1, <4>2 DEF IsNew
    <3>2. KeepsOrder(Words, LinkOnRunQueue(v, t))
      BY <2>2, <2>3, <2>4, <3>1, OrderLinked
    <3>3. /\ Words'.queues = LinkOnRunQueue(v, t).queues
          /\ Words'.prio = LinkOnRunQueue(v, t).prio
      BY <2>1, <2>5 DEF Publish, Words
    <3> QED BY <3>2, <3>3, OrderSame
  <2>6. CASE suspend[t] # 0
    BY <2>1, <2>3, <2>4, <2>6, PublishWords
  <2> QED BY <2>5, <2>6
<1>9. CASE WakeDone
  BY <1>1, <1>3, <1>9, RescheduledOrder DEF WakeDone
<1>10. CASE YieldThread
  BY <1>1, <1>3, <1>10, OrderSelected DEF YieldThread
<1>11. ASSUME NEW final \in Dead, ExitThread(final) PROVE KeepsOrder(Words, Words')
  <2>1. /\ InGuest /\ running # NoThread /\ current = running
        /\ SelectThread(FALSE, Exited(final))
    BY <1>11 DEF ExitThread, Exited
  <2>2. Consistent(Exited(final), suspend, Threads) /\ Exited(final).running = running
    BY <2>1, ExitedConsistent
  <2>3. /\ Exited(final).queues = queues /\ Exited(final).prio = prio
        /\ Words.prio = prio
    BY DEF Exited, Words
  <2>4. running \in Threads /\ state[running] = "running"
    BY <1>1, <2>1, GuestRunning DEF TypeOK
  <2>5. KeepsOrder(Words, Exited(final))
    BY <1>1, <2>3, OrderSame
  <2> QED BY <1>1, <1>3, <2>1, <2>2, <2>4, <2>5, OrderSelected
<1>12. ASSUME NEW t \in Threads, NEW p \in Priorities,
              (InitDefaultThread(p) /\ t = DefaultThread) \/ CreateThread(t, p)
       PROVE  KeepsOrder(Words, Words')
  <2>1. queues' = queues /\ prio' = [prio EXCEPT ![t] = p] /\ state[t] = "none"
    BY <1>12 DEF InitDefaultThread, CreateThread
  <2>2. \A q \in Queues : t \notin Range(queues[q])
    BY <1>3, <2>1
  <2>3. \A q \in Queues : \A u \in Range(queues[q]) : prio'[u] = prio[u]
    BY <1>1, <1>2, <2>1, <2>2 DEF Consistent, Lists, TypeOK
  <2> QED BY <1>1, <2>1, <2>3, QuietOrder
<1>13. CASE \/ SleepRefused \/ SleepReturns \/ (\E q \in WaitQueues : WakeupThread(q))
            \/ (\E t \in Threads : ReapThread(t))
            \/ DisableScheduler \/ EnableScheduler \/ EnterCallback \/ LeaveCallback
            \/ Aborted \/ UNCHANGED vars
  <2>1. queues' = queues /\ prio' = prio
    BY <1>13 DEF SleepRefused, Adopted, Publish, Words, SleepReturns, WakeupThread, ReapThread,
         DisableScheduler, EnableScheduler, EnterCallback, LeaveCallback, Aborted, vars
  <2> QED BY <1>1, <2>1, QuietOrder
<1> QED BY <1>4, <1>5, <1>6, <1>7, <1>8, <1>9, <1>10, <1>11, <1>12, <1>13, ConstantsAssumption DEF Next

\* First come, first served among equals, in every queue.
THEOREM ServedInOrder == Spec => FifoWithinPriority
<1>1. ASSUME IInv, [Next]_vars, NEW q \in Queues, NEW i \in DOMAIN queues[q],
             NEW k \in DOMAIN queues'[q], NEW m \in DOMAIN queues'[q],
             queues'[q][k] = queues[q][i],
             prio'[queues[q][i]] = prio[queues[q][i]],
             prio'[queues'[q][m]] = prio'[queues[q][i]],
             ~\E h \in 1 .. i : queues[q][h] = queues'[q][m]
      PROVE  k < m
  <2> DEFINE s == queues[q]
             n == queues'[q]
             u == s[i]
             t == n[m]
  <2>1. IInv'
    BY <1>1, NextKeepsIInv
  <2>2. s \in Seq(Threads) /\ Distinct(s) /\ Words.queues = queues /\ Words.prio = prio
    BY <1>1 DEF IInv, TypeOK, Consistent, Lists, Words
  <2>3. n \in Seq(Threads) /\ Distinct(n) /\ Words'.queues = queues' /\ Words'.prio = prio'
    BY <2>1 DEF IInv, TypeOK, Consistent, Lists, Words
  <2>4. DOMAIN s = 1 .. Len(s) /\ DOMAIN n = 1 .. Len(n) /\ Len(s) \in Nat /\ Len(n) \in Nat
    BY <2>2, <2>3, LenProperties
  <2>5. u \in Range(s) /\ u \in Range(n) /\ t \in Range(n)
    BY <1>1 DEF Range
  <2>6. u # t
    BY <1>1, <2>4
  <2>7. ~Before(s, t, u)
    <3> SUFFICES ASSUME NEW a \in DOMAIN s, NEW b \in DOMAIN s, s[a] = t, s[b] = u, a < b
                 PROVE  FALSE
      BY DEF Before
    <3>1. b = i
      BY <2>2 DEF Distinct
    <3>2. a \in 1 .. i
      BY <2>4, <3>1
    <3> QED BY <1>1, <3>2
  <2>8. KeepsOrder(Words, Words')
    BY <1>1, NextKeepsOrder
  <2>9. Before(n, u, t)
    BY <1>1, <2>2, <2>3, <2>5, <2>6, <2>7, <2>8 DEF KeepsOrder
  <2>10. PICK a \in DOMAIN n, b \in DOMAIN n : n[a] = u /\ n[b] = t /\ a < b
    BY <2>9 DEF Before
  <2>11. a = k /\ b = m
    BY <1>1, <2>3, <2>10 DEF Distinct
  <2> QED BY <2>10, <2>11
<1>2. IInv /\ [Next]_vars
        => [\A q \in Queues : \A i \in DOMAIN queues[q], k, m \in DOMAIN queues'[q] :
              LET u == queues[q][i]
                  t == queues'[q][m]
                  wasAhead == \E h \in 1 .. i : queues[q][h] = t
              IN  /\ queues'[q][k] = u
                  /\ prio'[u] = prio[u]
                  /\ prio'[t] = prio'[u]
                  /\ ~wasAhead
                  => k < m]_vars
  BY <1>1
<1> QED BY <1>2, Invariance, PTL DEF Spec, FifoWithinPriority

==============================================================================
