------------------------------- MODULE OSMutex -------------------------------
(***************************************************************************)
(* OSLockMutex and OSUnlockMutex: recursive mutexes with an owner and a    *)
(* count word, linked into the list of mutexes their owner holds (module   *)
(* LinkedList).  A contended lock is a boundary: the runtime aborts        *)
(* instead of putting the thread to sleep.  So no mutex has a waiter and   *)
(* no thread an inherited priority, and the two boundaries OSUnlockMutex   *)
(* keeps for them are left out, like those for unmapped guest memory.      *)
(*                                                                         *)
(* A handler runs with interrupts disabled and never leaves its host       *)
(* stack, so it is one step; between two steps any thread may be running.  *)
(***************************************************************************)
EXTENDS LinkedList, FiniteSets, SequencesExt

CONSTANTS
  Threads,
  Mutexes,
  DefaultThread,  \* the thread that exists from OSInit on
  MaxCount        \* bound on the recursion of a lock

ASSUME MutexAssumption ==
  /\ Null \notin Threads
  /\ Null \notin Mutexes
  /\ DefaultThread \in Threads
  /\ MaxCount \in Nat

VARIABLES
  owner,     \* OSMutex.thread
  count,     \* OSMutex.count
  held,      \* OSThread.queueMutex, a head and a tail; OSMutex.link, next and prev
  running,   \* 0x800000E4
  alive,     \* the threads that exist
  acquired,  \* history: the mutexes of each thread in the order it locked them
  depth,     \* history: locks less unlocks of each thread, for each mutex
  fault      \* the boundary the runtime aborted at, or "none"

words == <<owner, count, held>>
history == <<acquired, depth>>
vars == <<words, running, alive, history, fault>>

TypeOK ==
  /\ owner \in [Mutexes -> Threads \cup {Null}]
  /\ count \in [Mutexes -> Nat]
  /\ held \in LinkWords(Threads, Mutexes)
  /\ running \in Threads \cup {Null}
  /\ alive \in SUBSET Threads
  /\ acquired \in [Threads -> Seq(Mutexes)]
  /\ depth \in [Threads -> [Mutexes -> Nat]]
  /\ fault \in {"none", "OSLOCKMUTEX_CONTENDED", "OSUNLOCKMUTEX_BAD_COUNT"}

\* The storage of a thread that does not exist yet holds anything.
Init ==
  /\ owner = [m \in Mutexes |-> Null]
  /\ count = [m \in Mutexes |-> 0]
  /\ \E stale \in [Threads -> Mutexes \cup {Null}] :
       /\ stale[DefaultThread] = Null
       /\ held = [head |-> stale, tail |-> stale, next |-> [m \in Mutexes |-> Null],
                  prev |-> [m \in Mutexes |-> Null]]
  /\ running = Null
  /\ alive = {DefaultThread}
  /\ acquired = [t \in Threads |-> <<>>]
  /\ depth = [t \in Threads |-> [m \in Mutexes |-> 0]]
  /\ fault = "none"

-----------------------------------------------------------------------------
(* OSLockMutex, 0x801A7EE4.                                                 *)

\* Faulty variant: a list that has a tail gets a new head.
LinkMutexOverHead(k, t, m) == LinkLastOverHead(k, t, m)

LinkMutexToThread(k, t, m) == LinkLast(k, t, m)

\* Before OSInit has published a running thread a lock does nothing.
LockIgnored(m) ==
  /\ fault = "none"
  /\ running = Null
  /\ UNCHANGED vars

LockFree(m) ==
  /\ fault = "none"
  /\ running # Null
  /\ owner[m] = Null
  /\ owner' = [owner EXCEPT ![m] = running]
  /\ count' = [count EXCEPT ![m] = @ + 1]
  /\ held' = LinkMutexToThread(held, running, m)
  /\ acquired' = [acquired EXCEPT ![running] = Append(@, m)]
  /\ depth' = [depth EXCEPT ![running][m] = @ + 1]
  /\ UNCHANGED <<running, alive, fault>>

LockAgain(m) ==
  /\ fault = "none"
  /\ running # Null
  /\ owner[m] = running
  /\ count[m] < MaxCount
  /\ count' = [count EXCEPT ![m] = @ + 1]
  /\ depth' = [depth EXCEPT ![running][m] = @ + 1]
  /\ UNCHANGED <<owner, held, running, alive, acquired, fault>>

LockContended(m) ==
  /\ fault = "none"
  /\ running # Null
  /\ owner[m] \notin {Null, running}
  /\ fault' = "OSLOCKMUTEX_CONTENDED"
  /\ UNCHANGED <<words, running, alive, history>>

-----------------------------------------------------------------------------
(* OSUnlockMutex, 0x801A7FC0.                                               *)

\* Somebody else's mutex is left alone.
UnlockIgnored(m) ==
  /\ fault = "none"
  /\ running = Null \/ owner[m] # running
  /\ UNCHANGED vars

\* Faulty variant: the last mutex's predecessor does not become the tail.
UnlinkMutexKeepingTail(k, t, m) == UnlinkKeepingTail(k, t, m)

UnlinkMutexFromThread(k, t, m) == Unlink(k, t, m)

\* Faulty variant: the mutex is free at the first unlock, whatever its count.
ReleasedAtOnce(m) ==
  /\ count' = [count EXCEPT ![m] = @ - 1]
  /\ depth' = [depth EXCEPT ![running][m] = @ - 1]
  /\ owner' = [owner EXCEPT ![m] = Null]
  /\ held' = UnlinkMutexFromThread(held, running, m)
  /\ acquired' = [acquired EXCEPT ![running] = RemoveFirst(@, m)]

\* The last unlock takes the mutex out of the owner's list, wherever it is in it,
\* and leaves the mutex's own link words.
Released(m) ==
  /\ count' = [count EXCEPT ![m] = @ - 1]
  /\ depth' = [depth EXCEPT ![running][m] = @ - 1]
  /\ IF count[m] = 1
     THEN /\ owner' = [owner EXCEPT ![m] = Null]
          /\ held' = UnlinkMutexFromThread(held, running, m)
          /\ acquired' = [acquired EXCEPT ![running] = RemoveFirst(@, m)]
     ELSE UNCHANGED <<owner, held, acquired>>

Unlock(m) ==
  /\ fault = "none"
  /\ running # Null
  /\ owner[m] = running
  /\ IF count[m] = 0
     THEN fault' = "OSUNLOCKMUTEX_BAD_COUNT" /\ UNCHANGED <<words, history>>
     ELSE Released(m) /\ UNCHANGED fault
  /\ UNCHANGED <<running, alive>>

-----------------------------------------------------------------------------
(* The threads around the mutexes.                                          *)

\* SelectThread made t the running thread (module OSScheduler).
SwitchTo(t) ==
  /\ fault = "none"
  /\ t \in alive
  /\ running' = t
  /\ UNCHANGED <<words, alive, history, fault>>

\* Faulty variant: the list words keep what the storage held.
CreateThreadKeepingList(t) ==
  /\ fault = "none"
  /\ t \notin alive
  /\ alive' = alive \cup {t}
  /\ UNCHANGED <<words, running, history, fault>>

\* OSCreateThread empties the new thread's list of held mutexes.
CreateThread(t) ==
  /\ fault = "none"
  /\ t \notin alive
  /\ alive' = alive \cup {t}
  /\ held' = [held EXCEPT !.head[t] = Null, !.tail[t] = Null]
  /\ UNCHANGED <<owner, count, running, history, fault>>

\* The mutexes a walk along t's list meets.
Listed(t) ==
  {m \in Mutexes :
     \A S \in SUBSET Mutexes :
       /\ held.head[t] \in S \cup {Null}
       /\ \A n \in S : held.next[n] \in S \cup {Null}
       => m \in S}

\* External: a thread that exits gives up every mutex of its list, and another
\* thread is selected.
ExitThread(t) ==
  /\ fault = "none"
  /\ running # Null
  /\ t \in alive \ {running}
  /\ owner' = [m \in Mutexes |-> IF m \in Listed(running) THEN Null ELSE owner[m]]
  /\ count' = [m \in Mutexes |-> IF m \in Listed(running) THEN 0 ELSE count[m]]
  /\ held' = [held EXCEPT !.head[running] = Null, !.tail[running] = Null]
  /\ acquired' = [acquired EXCEPT ![running] = <<>>]
  /\ depth' = [depth EXCEPT ![running] = [m \in Mutexes |-> 0]]
  /\ alive' = alive \ {running}
  /\ running' = t
  /\ UNCHANGED fault

\* The process has aborted: nothing runs any more.
Aborted == fault # "none" /\ UNCHANGED vars

Next ==
  \/ \E m \in Mutexes :
       \/ LockIgnored(m) \/ LockFree(m) \/ LockAgain(m) \/ LockContended(m)
       \/ UnlockIgnored(m) \/ Unlock(m)
  \/ \E t \in Threads : SwitchTo(t) \/ CreateThread(t) \/ ExitThread(t)
  \/ Aborted

Spec == Init /\ [][Next]_vars

-----------------------------------------------------------------------------

\* The words of every living thread's held list are the mutexes it locked and has
\* not unlocked, in that order: links left in an unlocked mutex, or in the storage
\* of a new thread, never show up in a list, and no two lists run into each other.
HeldListsRepresent == \A t \in alive : Represents(held, t, acquired[t])

\* Mutual exclusion: each mutex is on the list of its owner, once, and on no other;
\* only the owner has more locks than unlocks, the count says how many more, and it
\* is zero exactly when the mutex is free; so the bad count boundary of OSUnlockMutex
\* is never met (and every word keeps its type).
OwnersExact ==
  /\ TypeOK
  /\ fault # "OSUNLOCKMUTEX_BAD_COUNT"
  /\ \A m \in Mutexes :
       /\ owner[m] = Null <=> count[m] = 0
       /\ \A t \in Threads :
            /\ depth[t][m] = IF owner[m] = t THEN count[m] ELSE 0
            /\ Cardinality({i \in DOMAIN acquired[t] : acquired[t][i] = m})
                 = IF owner[m] = t THEN 1 ELSE 0
=============================================================================
