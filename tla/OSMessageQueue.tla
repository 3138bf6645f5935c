---------------------------- MODULE OSMessageQueue ----------------------------
(***************************************************************************)
(* OSReceiveMessage: a ring buffer of messages in guest memory and two     *)
(* wait queues, for receivers that found it empty and senders that found   *)
(* it full.  OSSendMessage is translated guest code.                       *)
(*                                                                         *)
(* A handler is one step up to the point where it gives up the processor:  *)
(* in OSSleepThread, after which it looks at the buffer again, or in       *)
(* OSWakeupThread, after which it only returns.  How threads are selected  *)
(* is module OSScheduler's business: here any thread that is awake may be  *)
(* the one that goes on.                                                   *)
(***************************************************************************)
EXTENDS Naturals, Sequences, FiniteSets

CONSTANTS
  Threads,
  Capacity,  \* OSMessageQueue.msgCount
  MaxSent    \* bound on the number of messages sent

ASSUME QueueAssumption ==
  /\ Capacity \in Nat \ {0} /\ MaxSent \in Nat
  /\ IsFiniteSet(Threads)

Slots == 0 .. Capacity - 1

VARIABLES
  slots,      \* the message array
  first,      \* OSMessageQueue.firstIndex
  used,       \* OSMessageQueue.usedCount
  receivers,  \* the threads in the receive wait queue
  senders,    \* the threads in the send wait queue
  retrying,   \* the threads inside a blocking OSReceiveMessage
  resending,  \* the threads inside a blocking OSSendMessage
  running,    \* the thread that has the processor
  canSleep,   \* OSSleepThread parks: the scheduler is enabled, no callback runs
  sent,       \* how many messages were sent
  taken,      \* the last message received
  fault       \* the boundary the runtime aborted at, or "none"

words == <<slots, first, used>>
waits == <<receivers, senders, retrying, resending>>
vars == <<words, waits, running, canSleep, sent, taken, fault>>

TypeOK ==
  /\ slots \in [Slots -> 0 .. MaxSent]
  /\ first \in Slots
  /\ used \in 0 .. Capacity
  /\ receivers \subseteq retrying /\ senders \subseteq resending
  /\ retrying \cup resending \subseteq Threads /\ retrying \cap resending = {}
  /\ running \in Threads
  /\ canSleep \in BOOLEAN
  /\ sent \in 0 .. MaxSent /\ taken \in 0 .. MaxSent
  /\ fault \in {"none", "SELECTTHREAD_IDLE_POLL"}

Init ==
  /\ slots \in [Slots -> {0}]
  /\ first = 0
  /\ used = 0
  /\ receivers = {} /\ senders = {} /\ retrying = {} /\ resending = {}
  /\ running \in Threads
  /\ canSleep = TRUE
  /\ sent = 0
  /\ taken = 0
  /\ fault = "none"

Asleep == receivers \cup senders
InGuest == fault = "none" /\ running \notin retrying \cup resending

\* OSSleepThread parks the running thread in the queue that has become asleep.
GiveUpProcessor(asleep) ==
  IF asleep = Threads
  THEN fault' = "SELECTTHREAD_IDLE_POLL" /\ UNCHANGED running
  ELSE running' \in Threads \ asleep /\ UNCHANGED fault

\* OSWakeupThread reschedules, unless the scheduler is disabled.
Reschedule(asleep) == running' \in IF canSleep THEN Threads \ asleep ELSE {running}

\* OS__InitMessageQueue, of a queue no thread is in.
InitMessageQueue ==
  /\ InGuest
  /\ retrying = {} /\ resending = {}
  /\ first' = 0
  /\ used' = 0
  /\ receivers' = {} /\ senders' = {}
  /\ UNCHANGED <<slots, retrying, resending, running, canSleep, sent, taken, fault>>

\* Faulty variant: the index does not wrap.
DequeueUnwrapped ==
  /\ taken' = slots[first]
  /\ first' = first + 1
  /\ used' = used - 1
  /\ UNCHANGED slots

\* Faulty variant: the newest message is taken.
DequeueNewest ==
  /\ taken' = slots[(first + used - 1) % Capacity]
  /\ first' = (first + 1) % Capacity
  /\ used' = used - 1
  /\ UNCHANGED slots

DequeueMessage ==
  /\ taken' = slots[first]
  /\ first' = (first + 1) % Capacity
  /\ used' = used - 1
  /\ UNCHANGED slots

\* Faulty variant: a receive that finds a message wakes nobody.
ReceiveWakingNobody ==
  /\ used # 0
  /\ DequeueMessage
  /\ retrying' = retrying \ {running}
  /\ UNCHANGED <<receivers, senders, resending, running, canSleep, sent, fault>>

\* The loop of OSReceiveMessage once it finds a message: it wakes every sender.
ReceiveFound ==
  /\ used # 0
  /\ DequeueMessage
  /\ senders' = {}
  /\ retrying' = retrying \ {running}
  /\ Reschedule(receivers)
  /\ UNCHANGED <<receivers, resending, canSleep, sent, fault>>

\* The loop once it finds none: it parks and looks again when it is woken, or,
\* where OSSleepThread refuses, at once.
ReceiveParks ==
  /\ used = 0
  /\ retrying' = retrying \cup {running}
  /\ IF canSleep
     THEN receivers' = receivers \cup {running} /\ GiveUpProcessor(receivers' \cup senders)
     ELSE UNCHANGED <<receivers, running, fault>>
  /\ UNCHANGED <<words, senders, resending, canSleep, sent, taken>>

\* OSReceiveMessage(queue, out, block).
ReceiveMessage(block) ==
  /\ InGuest
  /\ \/ ReceiveFound
     \/ block /\ ReceiveParks
     \/ ~block /\ used = 0 /\ UNCHANGED vars

ReceiveRetries ==
  /\ fault = "none"
  /\ running \in retrying
  /\ ReceiveFound \/ ReceiveParks

\* External: the loop of OSSendMessage, the mirror image.
SendFits ==
  /\ used < Capacity
  /\ sent' = sent + 1
  /\ slots' = [slots EXCEPT ![(first + used) % Capacity] = sent']
  /\ used' = used + 1
  /\ receivers' = {}
  /\ resending' = resending \ {running}
  /\ Reschedule(senders)
  /\ UNCHANGED <<first, senders, retrying, canSleep, taken, fault>>

SendParks ==
  /\ used = Capacity
  /\ canSleep
  /\ resending' = resending \cup {running}
  /\ senders' = senders \cup {running}
  /\ GiveUpProcessor(receivers \cup senders')
  /\ UNCHANGED <<words, receivers, retrying, canSleep, sent, taken>>

SendMessage ==
  /\ InGuest
  /\ sent + Cardinality(resending) < MaxSent
  /\ SendFits \/ SendParks

SendRetries ==
  /\ fault = "none"
  /\ running \in resending
  /\ SendFits \/ SendParks

\* External: another thread that is awake gets the processor ...
Yield ==
  /\ InGuest
  /\ canSleep
  /\ running' \in Threads \ Asleep
  /\ UNCHANGED <<words, waits, canSleep, sent, taken, fault>>

\* ... and guest code disables and enables the scheduler, or enters a callback.
SetCanSleep ==
  /\ InGuest
  /\ canSleep' = ~canSleep
  /\ UNCHANGED <<words, waits, running, sent, taken, fault>>

\* The process has aborted: nothing runs any more.
Aborted == fault # "none" /\ UNCHANGED vars

Next ==
  \/ InitMessageQueue
  \/ \E block \in BOOLEAN : ReceiveMessage(block)
  \/ ReceiveRetries
  \/ SendMessage
  \/ SendRetries
  \/ Yield
  \/ SetCanSleep
  \/ Aborted

Spec == Init /\ [][Next]_vars

-----------------------------------------------------------------------------

\* No wakeup is lost: no receiver sleeps beside a message, no sender beside a free
\* slot, although a woken thread looks again only when it is selected and another
\* may have emptied or filled the buffer by then. With the types.
NoLostWakeup ==
  /\ TypeOK
  /\ used # 0 => receivers = {}
  /\ used # Capacity => senders = {}

\* The ring buffer is a channel: nothing lost, nothing twice, nothing overtaking,
\* whoever wakes whom in between.
Channel == INSTANCE BoundedChannel WITH
  chan <- [i \in 1 .. used |-> slots[(first + i - 1) % Capacity]]

ImplementsChannel == Channel!Spec
===============================================================================
