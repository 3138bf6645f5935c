---------------------------- MODULE OSScheduler ----------------------------
(***************************************************************************)
(* The cooperative guest thread scheduler of WiiCompiled-Switch: the       *)
(* OSThread words in guest memory and the HLE handlers that change them,   *)
(* OSCreateThread, OSResumeThread, OSSleepThread and SelectThread.         *)
(*                                                                         *)
(* One host thread runs everything, so a handler is atomic up to the       *)
(* point where SelectThread leaves its host stack; the part of a handler   *)
(* behind that point is an action of its own, taken when its thread is     *)
(* selected again.  A guest thread has its own host stack here (the fibers *)
(* of switch_guest_fiber.cpp); module GuestFiber looks below that.         *)
(*                                                                         *)
(* The intrusive thread lists are sequences (module RunQueues); module     *)
(* ThreadQueue shows that head, tail, next and prev implement them.  The   *)
(* rest of the SDK's thread package is translated guest code outside this  *)
(* repository: its operations are the actions marked "external".           *)
(***************************************************************************)
EXTENDS RunQueues

CONSTANTS
  DefaultThread,    \* 0x80347498, the thread of the first host stack
  MaxSuspend,       \* bound on a thread's suspend count
  MaxDisable,       \* bound on the OSDisableScheduler nesting
  NoThread,         \* a null OSThread pointer
  ExceptionContext  \* an OSContext that belongs to no thread

Dead == {"none", "moribund"}
ThreadStates == Dead \cup {"ready", "running", "waiting"}

ASSUME ConstantsAssumption ==
  /\ MaxSuspend \in Nat
  /\ MaxDisable \in Nat
  /\ DefaultThread \in Threads
  /\ NoThread \notin Threads
  /\ ExceptionContext \notin Threads \cup {NoThread}

VARIABLES
  state,     \* OSThread.state of each thread
  suspend,   \* OSThread.suspend
  base,      \* OSThread.base, the priority given at creation
  prio,      \* OSThread.priority, the effective one
  queueOf,   \* OSThread.queue
  queues,    \* the 32 run queues and the wait queues
  pending,   \* 0x80386920, the bit mask of run queues to look at
  resched,   \* 0x8038691C, a reschedule was asked for
  threadList, \* 0x800000DC and 0x800000E0, every existing thread
  idleFlag,  \* 0x80386918, the OSDisableScheduler nesting
  running,   \* 0x800000E4, the thread that owns the processor
  current,   \* 0x800000D4, the context that is live
  parked,    \* the queue argument of the OSSleepThread a thread is inside of
  waking,    \* the queue the external OSWakeupThread is emptying
  fault      \* the boundary the runtime aborted at, or "none"

vars == <<state, suspend, base, prio, queueOf, queues, pending, resched,
          threadList, idleFlag, running, current, parked, waking, fault>>

TypeOK ==
  /\ state \in [Threads -> ThreadStates]
  /\ suspend \in [Threads -> Nat]
  /\ base \in [Threads -> Priorities]
  /\ prio \in [Threads -> 0 .. LowestPriority]
  /\ queueOf \in [Threads -> Queues \cup {NoQueue}]
  /\ queues \in [Queues -> Seq(Threads)]
  /\ pending \in SUBSET Priorities
  /\ resched \in BOOLEAN
  /\ threadList \in Seq(Threads)
  /\ idleFlag \in Nat
  /\ running \in Threads \cup {NoThread}
  /\ current \in Threads \cup {NoThread, ExceptionContext}
  /\ parked \in [Threads -> WaitQueues \cup {NoQueue}]
  /\ waking \in WaitQueues \cup {NoQueue}
  /\ fault \in {"none", "SELECTTHREAD_IDLE_POLL", "OSRESUMETHREAD_RUNNING_RECOVERY"}

-----------------------------------------------------------------------------
(* The words SelectThread reads and writes.  A handler computes the words   *)
(* it leaves behind and hands them to SelectThread or publishes them.       *)

Words == [state |-> state, prio |-> prio, queueOf |-> queueOf, queues |-> queues,
          pending |-> pending, resched |-> resched, running |-> running,
          current |-> current]

Publish(w) ==
  /\ state' = w.state
  /\ prio' = w.prio
  /\ queueOf' = w.queueOf
  /\ queues' = w.queues
  /\ pending' = w.pending
  /\ resched' = w.resched
  /\ running' = w.running
  /\ current' = w.current

-----------------------------------------------------------------------------
(* SelectThread(force), 0x801A9C08.                                         *)

\* Faulty variant: an equally urgent thread preempts.
DeclinesUnlessMoreUrgent(force, w) ==
  \/ idleFlag >= 1
  \/ w.current # w.running
  \/ w.running = NoThread
  \/ /\ w.state[w.running] = "running"
     /\ ~force
     /\ w.prio[w.running] < Cntlzw(w.pending)

\* It returns without a switch: scheduler disabled, a context live that is not
\* the running thread's, or the running thread is urgent enough to go on.
Declines(force, w) ==
  \/ idleFlag >= 1
  \/ w.current # w.running
  \/ w.running = NoThread
  \/ /\ w.state[w.running] = "running"
     /\ ~force
     /\ w.prio[w.running] <= Cntlzw(w.pending)

\* Faulty variants: READY but not linked; linked but still RUNNING.
RequeuedUnlinked(w) ==
  IF w.state[w.running] = "running"
  THEN [w EXCEPT !.state[w.running] = "ready",
                 !.pending = @ \cup {w.prio[w.running]}]
  ELSE w

RequeuedStillRunning(w) ==
  IF w.state[w.running] = "running" THEN LinkOnRunQueue(w, w.running) ELSE w

\* A thread that is still RUNNING goes to the tail of its run queue.
Requeued(w) ==
  IF w.state[w.running] = "running"
  THEN LinkOnRunQueue([w EXCEPT !.state[w.running] = "ready"], w.running)
  ELSE w

\* How many threads at the head of a queue are dead; the scan unlinks them.
DeadHeads(w, p) ==
  Cardinality({i \in DOMAIN w.queues[p] :
                 \A j \in 1 .. i : w.state[w.queues[p][j]] \in Dead})

HasLive(w, p) == DeadHeads(w, p) < Len(w.queues[p])

\* The loop over the pending mask, most urgent queue first: it clears the bit of
\* every queue it finds empty and stops at the first queue with a live head.
Scanned(w) ==
  LET live == {p \in w.pending : HasLive(w, p)}
      visited == {p \in w.pending : p <= Cntlzw(live)}
      Dropped(p) == {w.queues[p][i] : i \in 1 .. DeadHeads(w, p)}
  IN  [w EXCEPT
         !.queues = [q \in Queues |->
                       IF q \in visited
                       THEN SubSeq(@[q], DeadHeads(w, q) + 1, Len(@[q]))
                       ELSE @[q]],
         !.queueOf = [t \in Threads |->
                        IF \E p \in visited : t \in Dropped(p) THEN NoQueue ELSE @[t]],
         !.pending = {p \in @ : p >= Cntlzw(live)},
         !.resched = FALSE]

\* Faulty variant: the least urgent pending queue is taken.
SwitchedToLeastUrgent(w) ==
  LET p == Max(w.pending)
      next == Head(w.queues[p])
  IN  [w EXCEPT !.queues[p] = Tail(@),
                !.pending = IF Len(w.queues[p]) = 1 THEN @ \ {p} ELSE @,
                !.queueOf[next] = NoQueue,
                !.state[next] = "running",
                !.running = next,
                !.current = next]

\* Pop the head of the most urgent queue and make it the running thread.
SwitchedToHead(w) ==
  LET p == Min(w.pending)
      next == Head(w.queues[p])
  IN  [w EXCEPT !.queues[p] = Tail(@),
                !.pending = IF Len(w.queues[p]) = 1 THEN @ \ {p} ELSE @,
                !.queueOf[next] = NoQueue,
                !.state[next] = "running",
                !.running = next,
                !.current = next]

\* The scan that ends with a dead thread, the last of the last pending queue, still
\* has it in nextThread: it goes on as with the head of a queue.
SwitchedToDead(w, dead) ==
  [w EXCEPT !.queueOf[dead] = NoQueue, !.state[dead] = "running",
            !.running = dead, !.current = dead]

Selected(w) ==
  LET requeued == Requeued(w)
      scanned == Scanned(requeued)
      scannedLast == requeued.queues[Max(requeued.pending)]
  IN  IF scanned.pending # {} THEN SwitchedToHead(scanned)
      ELSE IF scannedLast = <<>> THEN scanned
      ELSE SwitchedToDead(scanned, Last(scannedLast))

SelectThread(force, w) ==
  IF Declines(force, w)
  THEN Publish(w) /\ UNCHANGED fault
  ELSE IF Requeued(w).pending = {}
  THEN Publish(Requeued(w)) /\ fault' = "SELECTTHREAD_IDLE_POLL"
  ELSE Publish(Selected(w)) /\ UNCHANGED fault

\* __OSReschedule and the tail of OSResumeThread: only when one was asked for.
Reschedule(w) ==
  IF w.resched THEN SelectThread(FALSE, w) ELSE Publish(w) /\ UNCHANGED fault

-----------------------------------------------------------------------------
(* Who executes.  Before OSInit published a running thread the first host   *)
(* stack executes on behalf of the default thread.                          *)

Caller == IF running = NoThread THEN DefaultThread ELSE running

\* The executing host stack is in guest code, not inside a handler.
InGuest == fault = "none" /\ parked[Caller] = NoQueue /\ waking = NoQueue

Init ==
  /\ state = [t \in Threads |-> "none"]
  /\ suspend = [t \in Threads |-> 0]
  /\ base = [t \in Threads |-> 0]
  /\ prio = [t \in Threads |-> 0]
  /\ queueOf = [t \in Threads |-> NoQueue]
  /\ queues = [q \in Queues |-> <<>>]
  /\ pending = {}
  /\ resched = FALSE
  /\ threadList = <<>>
  /\ idleFlag = 0
  /\ running = NoThread
  /\ current = NoThread
  /\ parked = [t \in Threads |-> NoQueue]
  /\ waking = NoQueue
  /\ fault = "none"

\* Faulty variant: the list head is written although the list has a tail.
LinkedLastOverHead(list, t) == <<t>>

\* A new thread goes behind the tail of the list of all threads.
LinkedLast(list, t) == Append(list, t)

\* External: __OSThreadInit makes the boot context the running default thread.
InitDefaultThread(p) ==
  /\ InGuest
  /\ running = NoThread
  /\ \A t \in Threads : state[t] = "none"
  /\ state' = [state EXCEPT ![DefaultThread] = "running"]
  /\ base' = [base EXCEPT ![DefaultThread] = p]
  /\ prio' = [prio EXCEPT ![DefaultThread] = p]
  /\ running' = DefaultThread
  /\ current' = DefaultThread
  /\ threadList' = LinkedLast(threadList, DefaultThread)
  /\ UNCHANGED <<suspend, queueOf, queues, pending, resched, idleFlag, parked,
                 waking, fault>>

\* OSCreateThread: READY, suspended once, on no queue, at the tail of the thread
\* list; the queue links are not written, and nothing checks that the thread is not
\* listed yet: guest code creates a thread only over storage no thread uses.
CreateThread(t, p) ==
  /\ InGuest
  /\ t # DefaultThread
  /\ t # Caller
  /\ state[t] = "none"
  /\ state' = [state EXCEPT ![t] = "ready"]
  /\ base' = [base EXCEPT ![t] = p]
  /\ prio' = [prio EXCEPT ![t] = p]
  /\ suspend' = [suspend EXCEPT ![t] = 1]
  /\ threadList' = LinkedLast(threadList, t)
  /\ UNCHANGED <<queueOf, queues, pending, resched, idleFlag, running, current,
                 parked, waking, fault>>

\* No mutex ever has a waiter (OSLockMutex aborts on contention, module OSMutex),
\* so the walk over the held mutexes leaves the base priority.
EffectivePriority(t) == base[t]

\* Faulty variant: no reschedule is asked for.
ResumedWithoutRequest(t) ==
  IF state[t] = "ready"
  THEN InsertByPriority([Words EXCEPT !.prio[t] = base[t]], base[t], t)
  ELSE Words

\* The words OSResumeThread leaves when t's suspend count drops to zero.
Resumed(t) ==
  LET w == [Words EXCEPT !.prio[t] = EffectivePriority(t)]
  IN  CASE state[t] = "waiting" ->
             InsertByPriority([RemoveFromQueue(Words, t) EXCEPT
                                 !.prio[t] = EffectivePriority(t)],
                              queueOf[t], t)
        [] state[t] = "ready" ->
             [InsertByPriority(w, EffectivePriority(t), t) EXCEPT !.resched = TRUE]
        [] OTHER -> Words

\* Faulty variant: the count is not clamped.
CountAfterResumeUnclamped(n) == n - 1

\* OSResumeThread writes zero for a count that would become negative.
CountAfterResume(n) == IF n - 1 < 0 THEN 0 ELSE n - 1

ResumeThread(t) ==
  /\ InGuest
  /\ suspend' = [suspend EXCEPT ![t] = CountAfterResume(@)]
  /\ IF suspend[t] # 1
     THEN Publish(Words) /\ UNCHANGED fault
     ELSE IF state[t] = "running"
     THEN Publish(Words) /\ fault' = "OSRESUMETHREAD_RUNNING_RECOVERY"
     ELSE Reschedule(Resumed(t))
  /\ UNCHANGED <<base, threadList, idleFlag, parked, waking>>

\* OSSleepThread adopts the default thread when none is running.
Adopted ==
  IF running = NoThread
  THEN [Words EXCEPT !.running = DefaultThread, !.current = DefaultThread]
  ELSE Words

\* OSSleepThread while the scheduler is disabled: the caller is not parked.
SleepRefused ==
  /\ InGuest
  /\ idleFlag # 0
  /\ Publish(Adopted)
  /\ UNCHANGED <<suspend, base, threadList, idleFlag, parked, waking, fault>>

\* OSSleepThread up to and including its call of SelectThread(0).
SleepThread(q) ==
  /\ InGuest
  /\ idleFlag = 0
  /\ LET r == Adopted.running
         w == [Adopted EXCEPT !.state[r] = "waiting"]
     IN  /\ parked' = [parked EXCEPT ![r] = q]
         /\ SelectThread(FALSE, [InsertByPriority(w, q, r) EXCEPT !.resched = TRUE])
  /\ UNCHANGED <<suspend, base, threadList, idleFlag, waking>>

\* Faulty variants: the parking is kept; the thread is RUNNING but still linked.
SleepNotUndone ==
  /\ fault = "none"
  /\ parked[Caller] # NoQueue
  /\ parked' = [parked EXCEPT ![Caller] = NoQueue]
  /\ UNCHANGED <<state, suspend, base, prio, queueOf, queues, pending, resched,
                 threadList, idleFlag, running, current, waking, fault>>

SleepUndoneStillLinked ==
  /\ fault = "none"
  /\ parked[Caller] # NoQueue
  /\ state[Caller] = "waiting"
  /\ queueOf[Caller] = parked[Caller]
  /\ Publish([Words EXCEPT !.state[Caller] = "running", !.queueOf[Caller] = NoQueue])
  /\ parked' = [parked EXCEPT ![Caller] = NoQueue]
  /\ UNCHANGED <<suspend, base, threadList, idleFlag, waking, fault>>

\* SelectThread returned without a switch: the parking is undone.
SleepUndone ==
  /\ fault = "none"
  /\ parked[Caller] # NoQueue
  /\ state[Caller] = "waiting"
  /\ queueOf[Caller] = parked[Caller]
  /\ Publish([RemoveFromQueue(Words, Caller) EXCEPT !.state[Caller] = "running"])
  /\ parked' = [parked EXCEPT ![Caller] = NoQueue]
  /\ UNCHANGED <<suspend, base, threadList, idleFlag, waking, fault>>

\* The thread was woken and selected: OSSleepThread returns.
SleepReturns ==
  /\ fault = "none"
  /\ parked[Caller] # NoQueue
  /\ ~(state[Caller] = "waiting" /\ queueOf[Caller] = parked[Caller])
  /\ parked' = [parked EXCEPT ![Caller] = NoQueue]
  /\ UNCHANGED <<state, suspend, base, prio, queueOf, queues, pending, resched,
                 threadList, idleFlag, running, current, waking, fault>>

-----------------------------------------------------------------------------
(* External operations: the translated SDK code around the handlers.        *)

\* OSWakeupThread begins to empty q ...
WakeupThread(q) ==
  /\ InGuest
  /\ waking' = q
  /\ UNCHANGED <<state, suspend, base, prio, queueOf, queues, pending, resched,
                 threadList, idleFlag, running, current, parked, fault>>

\* ... makes its head READY, on a run queue unless it is suspended ...
WakeHead ==
  /\ fault = "none"
  /\ waking # NoQueue
  /\ queues[waking] # <<>>
  /\ LET t == Head(queues[waking])
         w == [Words EXCEPT !.queues[waking] = Tail(@), !.state[t] = "ready"]
     IN  Publish(IF suspend[t] = 0 THEN LinkOnRunQueue(w, t) ELSE w)
  /\ UNCHANGED <<suspend, base, threadList, idleFlag, parked, waking, fault>>

\* ... and reschedules when the queue is empty.
WakeDone ==
  /\ fault = "none"
  /\ waking # NoQueue
  /\ queues[waking] = <<>>
  /\ waking' = NoQueue
  /\ Reschedule(Words)
  /\ UNCHANGED <<suspend, base, threadList, idleFlag, parked>>

\* The words OSSuspendThread leaves when t's suspend count leaves zero.
Suspended(t) ==
  CASE state[t] = "running" -> [Words EXCEPT !.state[t] = "ready", !.resched = TRUE]
    [] state[t] = "ready" -> RemoveFromQueue(Words, t)
    [] state[t] = "waiting" ->
         InsertByPriority([RemoveFromQueue(Words, t) EXCEPT !.prio[t] = LowestPriority],
                          queueOf[t], t)

\* OSSuspendThread.  A thread suspends itself only where it can be switched out.
SuspendThread(t) ==
  /\ InGuest
  /\ state[t] \notin Dead
  /\ suspend[t] < MaxSuspend
  /\ t = running => idleFlag = 0 /\ current = running
  /\ suspend' = [suspend EXCEPT ![t] = @ + 1]
  /\ Reschedule(IF suspend[t] = 0 THEN Suspended(t) ELSE Words)
  /\ UNCHANGED <<base, threadList, idleFlag, parked, waking>>

\* OSYieldThread is SelectThread(1).
YieldThread ==
  /\ InGuest
  /\ SelectThread(TRUE, Words)
  /\ UNCHANGED <<suspend, base, threadList, idleFlag, parked, waking>>

\* OSExitThread: a detached thread leaves the thread list at once ...
ExitThread(final) ==
  /\ InGuest
  /\ running # NoThread
  /\ current = running
  /\ idleFlag = 0
  /\ threadList' = IF final = "none" THEN RemoveFirst(threadList, running) ELSE threadList
  /\ SelectThread(FALSE, [Words EXCEPT !.state[running] = final, !.resched = TRUE])
  /\ UNCHANGED <<suspend, base, idleFlag, parked, waking>>

\* ... a joinable one when OSJoinThread or OSDetachThread reaps it.
ReapThread(t) ==
  /\ InGuest
  /\ state[t] = "moribund"
  /\ state' = [state EXCEPT ![t] = "none"]
  /\ threadList' = RemoveFirst(threadList, t)
  /\ UNCHANGED <<suspend, base, prio, queueOf, queues, pending, resched, idleFlag,
                 running, current, parked, waking, fault>>

\* OSDisableScheduler and OSEnableScheduler only count.
DisableScheduler ==
  /\ InGuest
  /\ running # NoThread
  /\ idleFlag < MaxDisable
  /\ idleFlag' = idleFlag + 1
  /\ UNCHANGED <<state, suspend, base, prio, queueOf, queues, pending, resched,
                 threadList, running, current, parked, waking, fault>>

EnableScheduler ==
  /\ InGuest
  /\ idleFlag > 0
  /\ idleFlag' = idleFlag - 1
  /\ UNCHANGED <<state, suspend, base, prio, queueOf, queues, pending, resched,
                 threadList, running, current, parked, waking, fault>>

\* Guest code brackets a callback with OSSetCurrentContext.
EnterCallback ==
  /\ InGuest
  /\ running # NoThread
  /\ current = running
  /\ current' = ExceptionContext
  /\ UNCHANGED <<state, suspend, base, prio, queueOf, queues, pending, resched,
                 threadList, idleFlag, running, parked, waking, fault>>

LeaveCallback ==
  /\ InGuest
  /\ current = ExceptionContext
  /\ current' = running
  /\ UNCHANGED <<state, suspend, base, prio, queueOf, queues, pending, resched,
                 threadList, idleFlag, running, parked, waking, fault>>

\* The process has aborted: nothing runs any more.
Aborted == fault # "none" /\ UNCHANGED vars

Next ==
  \/ \E p \in Priorities : InitDefaultThread(p)
  \/ \E t \in Threads, p \in Priorities : CreateThread(t, p)
  \/ \E t \in Threads : ResumeThread(t)
  \/ SleepRefused
  \/ \E q \in WaitQueues : SleepThread(q)
  \/ SleepUndone
  \/ SleepReturns
  \/ \E q \in WaitQueues : WakeupThread(q)
  \/ WakeHead
  \/ WakeDone
  \/ \E t \in Threads : SuspendThread(t)
  \/ YieldThread
  \/ \E final \in Dead : ExitThread(final)
  \/ \E t \in Threads : ReapThread(t)
  \/ DisableScheduler
  \/ EnableScheduler
  \/ EnterCallback
  \/ LeaveCallback
  \/ Aborted

Spec == Init /\ [][Next]_vars

-----------------------------------------------------------------------------
(* Safety.                                                                  *)

\* No OSThread is linked twice, in one queue or in two: a second link would
\* overwrite the first one's next and prev and cut other threads off.
LinkedOnce ==
  \A q1, q2 \in Queues :
    \A i \in DOMAIN queues[q1], j \in DOMAIN queues[q2] :
      queues[q1][i] = queues[q2][j] => q1 = q2 /\ i = j

\* A run queue holds READY threads of its priority that are not suspended.
RunQueueContents ==
  \A p \in Priorities : \A i \in DOMAIN queues[p] :
    LET t == queues[p][i]
    IN  state[t] = "ready" /\ suspend[t] = 0 /\ prio[t] = p /\ queueOf[t] = p

\* A wait queue holds WAITING threads whose queue field names it.
WaitQueueContents ==
  \A q \in WaitQueues : \A i \in DOMAIN queues[q] :
    state[queues[q][i]] = "waiting" /\ queueOf[queues[q][i]] = q

\* Whatever a thread went through between being linked and being found - suspended,
\* given another priority, woken - a queue holds only threads that belong in it.
QueueContents == RunQueueContents /\ WaitQueueContents

\* The pending mask has exactly the bits of the run queues that hold a thread:
\* a missing bit loses the queue's threads, a stray one stops SelectThread short.
PendingExact == pending = {p \in Priorities : queues[p] # <<>>}

\* No thread is lost: a READY thread that may run is in its run queue, a WAITING
\* one in the wait queue its queue field names.
NoThreadLost ==
  \A t \in Threads :
    /\ state[t] = "ready" /\ suspend[t] = 0
         => \E i \in DOMAIN queues[prio[t]] : queues[prio[t]][i] = t
    /\ state[t] = "waiting"
         => /\ queueOf[t] \in WaitQueues
            /\ \E i \in DOMAIN queues[queueOf[t]] : queues[queueOf[t]][i] = t

\* At most the running thread is RUNNING, and it is not suspended; so
\* OSResumeThread never meets its RUNNING recovery boundary.
OneRunning ==
  \A t \in Threads : state[t] = "running" => t = running /\ suspend[t] = 0

\* Guest code never executes for a thread that is parked, READY or dead: the
\* OSSleepThread comment "never let the caller keep running while the same
\* OSThread remains WAITING and linked".
ExecutingIsRunning ==
  InGuest /\ running # NoThread => state[running] = "running"

\* Between them: whenever guest code executes for a thread, that thread and no other is
\* RUNNING, and OSResumeThread never meets its RUNNING recovery boundary.
RunningExecutes == OneRunning /\ ExecutingIsRunning

\* A run queue thread more urgent than the running one never goes unnoticed:
\* while there is one, the reschedule request is up.
NoMissedReschedule ==
  InGuest /\ running # NoThread /\ ~resched
    => \A p \in pending : prio[running] <= p

\* Wait queues are in priority order, so OSWakeupThread wakes the most urgent
\* thread first.
WaitQueueSorted ==
  \A q \in WaitQueues : \A i, j \in DOMAIN queues[q] :
    i <= j => prio[queues[q][i]] <= prio[queues[q][j]]

\* The thread list names every thread that was created and not yet reaped, once.
ThreadListExact ==
  /\ \A i, j \in DOMAIN threadList : threadList[i] = threadList[j] => i = j
  /\ \A t \in Threads \ {DefaultThread} :
       state[t] # "none" <=> \E i \in DOMAIN threadList : threadList[i] = t

\* Whoever gets the processor is at least as urgent as everyone left queued.
SelectsMostUrgent ==
  [][running # NoThread /\ running' # running
       => \A p \in pending' : prio'[running'] <= p]_vars

\* Making another thread ready takes the processor only for a more urgent one.
PreemptsOnlyForMoreUrgent ==
  [][(\E t \in Threads : ResumeThread(t) /\ t # running) \/ WakeDone
       => running' = running \/ prio'[running'] < prio[running]]_vars

\* First come, first served among equals: a thread that stays in a queue with its
\* priority stays ahead of those behind it and of those that join it.
FifoWithinPriority ==
  [][\A q \in Queues : \A i \in DOMAIN queues[q], k, m \in DOMAIN queues'[q] :
       LET u == queues[q][i]
           t == queues'[q][m]
           wasAhead == \E h \in 1 .. i : queues[q][h] = t
       IN  /\ queues'[q][k] = u
           /\ prio'[u] = prio[u]
           /\ prio'[t] = prio'[u]
           /\ ~wasAhead
           => k < m]_vars
=============================================================================
