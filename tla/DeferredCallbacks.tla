------------------------- MODULE DeferredCallbacks -------------------------
(***************************************************************************)
(* Completion callbacks of the asynchronous NAND operations: the queue and *)
(* the pump of switch_nand_callback_runtime.cpp, together with the host    *)
(* stacks of switch_guest_fiber.cpp, because a callback is guest code and  *)
(* may wake a more urgent thread, which SelectThread then switches to.     *)
(*                                                                         *)
(* Translated code receives the CpuContext it works on as an argument, so  *)
(* every frame on a host stack keeps a pointer: the shared context, or the *)
(* scratch context PumpCallbacks makes on the stack of the thread that     *)
(* pumps.  The contents of a context are told apart by the thread and the  *)
(* level, its own code or a callback it runs, they belong to.              *)
(***************************************************************************)
EXTENDS Naturals, Sequences, FiniteSets, SequencesExt

CONSTANTS
  Threads,             \* guest threads; all have a host stack
  DefaultThread,       \* the thread that executes at start-up
  Shared,              \* the CpuContext translated execution starts with
  DrainLimit,          \* callbacks one pump delivers, 64 in the code
  MaxOps               \* bound on the operations issued

ASSUME ConstantsAssumption ==
  /\ DefaultThread \in Threads
  /\ Shared \notin Threads
  /\ DrainLimit \in Nat \ {0}
  /\ MaxOps \in Nat

VARIABLES
  pending,    \* g_pendingCallbacks: the operations whose callback waits
  depth,      \* g_callbackDrainDepth, one variable for all host stacks
  pumps,      \* the PumpCallbacks loops on each thread's stack: callbacks taken
  issued,     \* operations issued
  delivered,  \* the operations whose callback was called, in order
  running,    \* the guest thread that executes
  started,    \* threads whose entry was called
  pointer,    \* the CpuContext a thread's own code works on
  contents,   \* what each CpuContext holds
  saved,      \* GuestFiberRecord.saved_cpu
  active,     \* g_active_cpu
  dropped,    \* history: the operations whose callback could not be queued
  limited,    \* history: the pump that ended last had reached its limit
  confined    \* history: no callback has made SelectThread switch threads

pumpVars == <<pending, depth, pumps, issued, delivered, dropped, limited>>
fiberVars == <<running, started, pointer, contents, saved, active>>
vars == <<pumpVars, fiberVars, confined>>

\* A scratch context is named by the thread on whose stack it is.
Contexts == Threads \cup {Shared}

Levels == {"own", "callback"}
Registers == [thread : Threads, level : Levels]

Of(t, level) == [thread |-> t, level |-> level]

TypeOK ==
  /\ pending \in Seq(1 .. MaxOps)
  /\ depth \in Nat
  /\ pumps \in [Threads -> Seq(1 .. DrainLimit)]
  /\ issued \in 0 .. MaxOps
  /\ delivered \in Seq(1 .. MaxOps)
  /\ running \in Threads
  /\ started \subseteq Threads
  /\ pointer \in [Threads -> Contexts]
  /\ contents \in [Contexts -> Registers]
  /\ saved \in [Threads -> Registers]
  /\ active \in Contexts
  /\ dropped \subseteq 1 .. MaxOps
  /\ limited \in BOOLEAN /\ confined \in BOOLEAN

Init ==
  /\ pending = <<>>
  /\ depth = 0
  /\ pumps = [t \in Threads |-> <<>>]
  /\ issued = 0
  /\ delivered = <<>>
  /\ running = DefaultThread
  /\ started = {DefaultThread}
  /\ pointer = [t \in Threads |-> Shared]
  /\ contents = [c \in Contexts |-> Of(DefaultThread, "own")]
  /\ saved = [t \in Threads |-> Of(t, "own")]
  /\ active = Shared
  /\ dropped = {} /\ limited = FALSE /\ confined = TRUE

-----------------------------------------------------------------------------

InCallback(t) == pumps[t] # <<>>

Level(t) == IF InCallback(t) THEN "callback" ELSE "own"

\* The CpuContext the executing code of t works on.
ContextOf(t) == IF InCallback(t) THEN t ELSE pointer[t]

\* Faulty variant: the callback works on the registers of its caller.
CallbackContextShared(t) == pointer[t]

\* Callbacks run on the scratch context of the thread that pumps.
CallbackContext(t) == t

\* PumpCallbacks takes the head of the queue and calls it on scratch registers.
Deliver(queue, taken) ==
  /\ pending' = Tail(queue)
  /\ delivered' = Append(delivered, Head(queue))
  /\ pumps' = [pumps EXCEPT ![running] = taken]
  /\ contents' = [contents EXCEPT ![CallbackContext(running)] = Of(running, "callback")]

\* Faulty variant: the newest goes first.
QueuedInFront(callback) == IF callback = "stored" THEN <<issued + 1>> \o pending ELSE pending

\* QueueCallback: a null callback is not queued, and one the deque has no memory for is
\* dropped without a word.
Outcomes == {"null", "stored", "dropped"}
Queued(callback) == IF callback = "stored" THEN Append(pending, issued + 1) ELSE pending

\* NANDOpenAsync, NANDReadAsync, NANDCloseAsync: the operation is done at once, its
\* callback queued if it has one, and the queue pumped unless a pump is on some
\* host stack.
AsyncOperation(callback) ==
  /\ callback # "null" => issued < MaxOps
  /\ issued' = IF callback = "null" THEN issued ELSE issued + 1
  /\ dropped' = IF callback = "dropped" THEN dropped \cup {issued + 1} ELSE dropped
  /\ IF depth # 0 \/ Queued(callback) = <<>>
     THEN /\ pending' = Queued(callback)
          /\ UNCHANGED <<depth, pumps, delivered, contents, limited>>
     ELSE /\ depth' = 1 /\ limited' = FALSE
          /\ Deliver(Queued(callback), Append(pumps[running], 1))
  /\ UNCHANGED <<running, started, pointer, saved, active, confined>>

\* Faulty variants: one callback per pump; the depth is dropped at every callback.
CallbackReturnsStopping ==
  /\ InCallback(running)
  /\ depth' = depth - 1
  /\ pumps' = [pumps EXCEPT ![running] = Front(@)]
  /\ limited' = (Last(pumps[running]) = DrainLimit)
  /\ UNCHANGED <<pending, delivered, contents>>
  /\ UNCHANGED <<issued, dropped, running, started, pointer, saved, active, confined>>

CallbackReturnsUnbalanced ==
  /\ InCallback(running)
  /\ depth' = depth - 1
  /\ IF Last(pumps[running]) < DrainLimit /\ pending # <<>>
     THEN Deliver(pending, Append(Front(pumps[running]), Last(pumps[running]) + 1))
     ELSE /\ pumps' = [pumps EXCEPT ![running] = Front(@)]
          /\ UNCHANGED <<pending, delivered, contents>>
  /\ UNCHANGED <<issued, dropped, limited, running, started, pointer, saved, active, confined>>

\* A callback returns: the pump takes the next one, or ends at the limit.
CallbackReturns ==
  /\ InCallback(running)
  /\ IF Last(pumps[running]) < DrainLimit /\ pending # <<>>
     THEN /\ Deliver(pending, Append(Front(pumps[running]), Last(pumps[running]) + 1))
          /\ UNCHANGED <<depth, limited>>
     ELSE /\ depth' = depth - 1
          /\ pumps' = [pumps EXCEPT ![running] = Front(@)]
          /\ limited' = (Last(pumps[running]) = DrainLimit)
          /\ UNCHANGED <<pending, delivered, contents>>
  /\ UNCHANGED <<issued, dropped, running, started, pointer, saved, active, confined>>

\* SelectThread switches from the running thread, which works on context c, to t:
\* switch_to on the old stack, then GuestFiberEntry or the rest of switch_to on the
\* new one.
SwitchTo(t) ==
  /\ t # running
  /\ confined' = (confined /\ ~InCallback(running))
  /\ running' = t
  /\ started' = started \cup {t}
  /\ LET c == ContextOf(running)
         loaded == [contents EXCEPT ![c] = saved[t]]
     IN  /\ saved' = [saved EXCEPT ![running] = contents[c]]
         /\ IF t \in started
            THEN /\ contents' = [loaded EXCEPT ![ContextOf(t)] = saved[t]]
                 /\ active' = ContextOf(t)
                 /\ UNCHANGED pointer
            ELSE /\ contents' = [loaded EXCEPT ![c] = Of(t, "own")]
                 /\ active' = c
                 /\ pointer' = [pointer EXCEPT ![t] = c]
  /\ UNCHANGED pumpVars

Next ==
  \/ \E callback \in Outcomes : AsyncOperation(callback)
  \/ CallbackReturns
  \/ \E t \in Threads : SwitchTo(t)

Spec == Init /\ [][Next]_vars

\* Callbacks return, and the thread whose stack holds the pump is selected again
\* once the more urgent threads block.
Fairness ==
  \A t \in Threads :
    /\ SF_vars(InCallback(t) /\ SwitchTo(t))
    /\ SF_vars(running = t /\ CallbackReturns)

FairSpec == Spec /\ Fairness

-----------------------------------------------------------------------------

\* Every operation's callback is called once, in the order of the operations, and
\* one at a time whatever threads run meanwhile: completion code is not entered again
\* while it executes, and the callbacks called and those waiting together are all
\* that were issued, except those there was no memory for. With the types.
DeliveredInOrder ==
  /\ TypeOK
  /\ LET queued == delivered \o pending
     IN  /\ \A i, j \in DOMAIN queued : i < j => queued[i] < queued[j]
         /\ Range(queued) = 1 .. issued \ dropped
  /\ Cardinality({t \in Threads : InCallback(t)}) <= 1 /\ \A t \in Threads : Len(pumps[t]) <= 1

\* Executing code finds its own registers in its CpuContext: a callback's register
\* changes never reach the code that was interrupted by the pump.
CallerRegistersKept == contents[ContextOf(running)] = Of(running, Level(running))

\* As long as no callback makes SelectThread switch threads they are kept, and all
\* threads' own code works on the shared CpuContext, which outlives every pump.
KeptWhileConfined ==
  confined => CallerRegistersKept /\ \A t \in started : pointer[t] = Shared

\* No callback waits while no pump is in progress, except behind one that took as many
\* as a pump may.
DrainedOnReturn == depth = 0 => pending = <<>> \/ limited

\* Every operation completes: unless it could not be queued, its callback is called in
\* the end, or left by a pump that took as many as a pump may.
EveryCallbackRuns ==
  \A n \in 1 .. MaxOps :
    issued >= n /\ n \notin dropped ~> n \in Range(delivered) \/ (depth = 0 /\ limited)
=============================================================================
