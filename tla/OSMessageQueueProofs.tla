------------------------- MODULE OSMessageQueueProofs -------------------------
(***************************************************************************)
(* The message queue for every capacity and every set of threads: no       *)
(* wakeup is lost, and the ring buffer is the channel BoundedChannel.      *)
(***************************************************************************)
EXTENDS OSMessageQueue, Integers, SequenceTheorems, FiniteSetTheorems, TLAPS

\* Every sender that sleeps has a number kept for its message.
NumbersKept == sent + Cardinality(resending) <= MaxSent

IInv == NoLostWakeup /\ NumbersKept

-----------------------------------------------------------------------------
(* The ring.                                                               *)

\* The slot that lies n slots behind slot a.
LEMMA Wrapped ==
  ASSUME NEW a \in Slots, NEW n \in 0 .. Capacity
  PROVE  (a + n) % Capacity = IF a + n < Capacity THEN a + n ELSE a + n - Capacity
BY QueueAssumption DEF Slots

LEMMA WrappedSlot ==
  ASSUME NEW a \in Slots, NEW n \in 0 .. Capacity
  PROVE  (a + n) % Capacity \in Slots
BY Wrapped, QueueAssumption DEF Slots

\* Different distances below the capacity lead to different slots.
LEMMA SlotsApart ==
  ASSUME NEW a \in Slots, NEW m \in 0 .. Capacity - 1, NEW n \in 0 .. Capacity - 1,
         (a + m) % Capacity = (a + n) % Capacity
  PROVE  m = n
<1>1. m \in 0 .. Capacity /\ n \in 0 .. Capacity /\ Capacity \in Nat
  BY QueueAssumption
<1>2. (a + m) % Capacity = IF a + m < Capacity THEN a + m ELSE a + m - Capacity
  BY <1>1, Wrapped
<1>3. (a + n) % Capacity = IF a + n < Capacity THEN a + n ELSE a + n - Capacity
  BY <1>1, Wrapped
<1> QED BY <1>1, <1>2, <1>3 DEF Slots

\* Counting on from the next slot is counting from this one, one further.
LEMMA SecondSlot ==
  ASSUME NEW a \in Slots, NEW n \in 0 .. Capacity - 1
  PROVE  (((a + 1) % Capacity) + n) % Capacity = (a + (n + 1)) % Capacity
<1>1. /\ n \in 0 .. Capacity /\ n + 1 \in 0 .. Capacity /\ 1 \in 0 .. Capacity
      /\ Capacity \in Nat \ {0}
  BY QueueAssumption
<1> DEFINE b == (a + 1) % Capacity
<1>2. b = (IF a + 1 < Capacity THEN a + 1 ELSE a + 1 - Capacity) /\ b \in Slots
  BY <1>1, Wrapped, WrappedSlot
<1> HIDE DEF b
<1>3. (b + n) % Capacity = IF b + n < Capacity THEN b + n ELSE b + n - Capacity
  BY <1>1, <1>2, Wrapped
<1>4. (a + (n + 1)) % Capacity = IF a + (n + 1) < Capacity THEN a + (n + 1) ELSE a + (n + 1) - Capacity
  BY <1>1, Wrapped
<1>5. (b + n) % Capacity = (a + (n + 1)) % Capacity
  BY <1>1, <1>2, <1>3, <1>4 DEF Slots
<1> QED BY <1>5 DEF b

-----------------------------------------------------------------------------
(* The invariant.                                                          *)

LEMMA CountResending ==
  ASSUME TypeOK, NEW S \in SUBSET Threads
  PROVE  /\ IsFiniteSet(S) /\ Cardinality(S) \in Nat
         /\ Cardinality(S \cup {running})
              = IF running \in S THEN Cardinality(S) ELSE Cardinality(S) + 1
         /\ Cardinality(S \ {running})
              = IF running \in S THEN Cardinality(S) - 1 ELSE Cardinality(S)
<1>1. IsFiniteSet(S)
  BY QueueAssumption, FS_Subset
<1> QED BY <1>1, FS_CardinalityType, FS_AddElement, FS_RemoveElement

LEMMA InitInv == Init => IInv
<1> SUFFICES ASSUME Init PROVE IInv
  OBVIOUS
<1>1. NoLostWakeup
  BY QueueAssumption DEF Init, NoLostWakeup, TypeOK, Slots
<1>2. Cardinality(resending) = 0
  BY FS_EmptySet DEF Init
<1> QED BY <1>1, <1>2, QueueAssumption DEF Init, IInv, NumbersKept

LEMMA ReceiveFoundInv == IInv /\ ReceiveFound => IInv'
<1> SUFFICES ASSUME IInv, ReceiveFound PROVE IInv'
  OBVIOUS
<1>1. used \in 1 .. Capacity /\ receivers = {}
  BY DEF IInv, NoLostWakeup, TypeOK, ReceiveFound
<1>2. used' = used - 1 /\ senders' = {} /\ receivers' = {}
  BY <1>1 DEF ReceiveFound, DequeueMessage
<1>3. first' \in Slots /\ taken' \in 0 .. MaxSent
  BY WrappedSlot, QueueAssumption DEF IInv, NoLostWakeup, TypeOK, ReceiveFound, DequeueMessage
<1>4. running' \in Threads
  BY DEF IInv, NoLostWakeup, TypeOK, ReceiveFound, Reschedule
<1>5. TypeOK'
  <2>1. used' \in 0 .. Capacity
    BY <1>1, <1>2, QueueAssumption
  <2>2. /\ slots' = slots /\ resending' = resending /\ canSleep' = canSleep /\ sent' = sent
        /\ fault' = fault /\ retrying' = retrying \ {running}
    BY DEF ReceiveFound, DequeueMessage
  <2> QED BY <1>2, <1>3, <1>4, <2>1, <2>2 DEF IInv, NoLostWakeup, TypeOK
<1> QED BY <1>1, <1>2, <1>5 DEF IInv, NoLostWakeup, NumbersKept, ReceiveFound

LEMMA ReceiveParksInv ==
  ASSUME IInv, ReceiveParks, running \notin resending
  PROVE  IInv'
<1>1. used = 0 /\ used' = 0 /\ senders = {} /\ senders' = {}
  BY QueueAssumption DEF IInv, NoLostWakeup, ReceiveParks, words
<1>2. running' \in Threads /\ fault' \in {"none", "SELECTTHREAD_IDLE_POLL"}
  BY DEF IInv, NoLostWakeup, TypeOK, ReceiveParks, GiveUpProcessor
<1>3. receivers' \subseteq retrying' /\ retrying' = retrying \cup {running}
  BY DEF IInv, NoLostWakeup, TypeOK, ReceiveParks
<1>4. TypeOK'
  BY <1>1, <1>2, <1>3 DEF IInv, NoLostWakeup, TypeOK, ReceiveParks, words
<1> QED BY <1>1, <1>4 DEF IInv, NoLostWakeup, NumbersKept, ReceiveParks, words

\* A thread that sends has a number kept for its message, or is given one now.
LEMMA SendFitsInv ==
  ASSUME IInv, SendFits, running \notin retrying,
         running \notin resending => sent + Cardinality(resending) < MaxSent
  PROVE  IInv'
<1>1. used \in 0 .. Capacity - 1 /\ senders = {} /\ senders' = {} /\ receivers' = {}
  BY QueueAssumption DEF IInv, NoLostWakeup, TypeOK, SendFits
<1>2. used' = used + 1 /\ used' # 0 /\ sent' = sent + 1 /\ resending' = resending \ {running}
  BY <1>1 DEF SendFits
<1>3. /\ sent' + Cardinality(resending') <= MaxSent /\ sent' \in 0 .. MaxSent
  <2>1. resending \in SUBSET Threads /\ sent \in 0 .. MaxSent /\ TypeOK
    BY DEF IInv, NoLostWakeup, TypeOK
  <2>2. /\ Cardinality(resending) \in Nat /\ Cardinality(resending') \in Nat
        /\ Cardinality(resending') = IF running \in resending THEN Cardinality(resending) - 1
                                     ELSE Cardinality(resending)
    <3>1. resending' \in SUBSET Threads
      BY <1>2, <2>1
    <3> QED BY <1>2, <2>1, <3>1, CountResending
  <2> QED BY <1>2, <2>1, <2>2, QueueAssumption DEF IInv, NumbersKept
<1>4. slots' \in [Slots -> 0 .. MaxSent]
  BY <1>2, <1>3 DEF IInv, NoLostWakeup, TypeOK, SendFits
<1>5. running' \in Threads
  BY DEF IInv, NoLostWakeup, TypeOK, SendFits, Reschedule
<1>6. TypeOK'
  BY <1>1, <1>2, <1>3, <1>4, <1>5, QueueAssumption DEF IInv, NoLostWakeup, TypeOK, SendFits
<1> QED BY <1>1, <1>2, <1>3, <1>6 DEF IInv, NoLostWakeup, NumbersKept

LEMMA SendParksInv ==
  ASSUME IInv, SendParks, running \notin retrying,
         running \notin resending => sent + Cardinality(resending) < MaxSent
  PROVE  IInv'
<1>1. used = Capacity /\ used' = Capacity /\ used # 0 /\ receivers = {} /\ receivers' = {}
  BY QueueAssumption DEF IInv, NoLostWakeup, SendParks, words
<1>2. running' \in Threads /\ fault' \in {"none", "SELECTTHREAD_IDLE_POLL"}
  BY DEF IInv, NoLostWakeup, TypeOK, SendParks, GiveUpProcessor
<1>3. sent' + Cardinality(resending') <= MaxSent
  <2>1. resending \in SUBSET Threads /\ sent \in 0 .. MaxSent /\ TypeOK
    BY DEF IInv, NoLostWakeup, TypeOK
  <2>2. resending' = resending \cup {running} /\ sent' = sent
    BY DEF SendParks
  <2>3. /\ Cardinality(resending) \in Nat
        /\ Cardinality(resending') = IF running \in resending THEN Cardinality(resending)
                                     ELSE Cardinality(resending) + 1
    BY <2>1, <2>2, CountResending
  <2>4. sent + Cardinality(resending) <= MaxSent
    BY DEF IInv, NumbersKept
  <2> QED BY <2>1, <2>2, <2>3, <2>4, QueueAssumption
<1>4. TypeOK'
  BY <1>1, <1>2 DEF IInv, NoLostWakeup, TypeOK, SendParks, words
<1> QED BY <1>1, <1>3, <1>4 DEF IInv, NoLostWakeup, NumbersKept

LEMMA NextInv == IInv /\ [Next]_vars => IInv'
<1> SUFFICES ASSUME IInv, [Next]_vars PROVE IInv'
  OBVIOUS
<1>1. CASE InitMessageQueue
  BY <1>1, QueueAssumption DEF InitMessageQueue, IInv, NoLostWakeup, TypeOK, NumbersKept, Slots
<1>2. ASSUME NEW block \in BOOLEAN, ReceiveMessage(block) PROVE IInv'
  <2>1. CASE ReceiveFound
    BY <2>1, ReceiveFoundInv
  <2>2. CASE ReceiveParks
    BY <1>2, <2>2, ReceiveParksInv DEF ReceiveMessage, InGuest
  <2>3. CASE UNCHANGED vars
    BY <2>3 DEF vars, words, waits, IInv, NoLostWakeup, TypeOK, NumbersKept
  <2> QED BY <1>2, <2>1, <2>2, <2>3 DEF ReceiveMessage
<1>3. CASE ReceiveRetries
  <2>1. running \notin resending
    BY <1>3 DEF ReceiveRetries, IInv, NoLostWakeup, TypeOK
  <2> QED BY <1>3, <2>1, ReceiveFoundInv, ReceiveParksInv DEF ReceiveRetries
<1>4. CASE SendMessage
  BY <1>4, SendFitsInv, SendParksInv DEF SendMessage, InGuest
<1>5. CASE SendRetries
  <2>1. running \notin retrying
    BY <1>5 DEF SendRetries, IInv, NoLostWakeup, TypeOK
  <2> QED BY <1>5, <2>1, SendFitsInv, SendParksInv DEF SendRetries
<1>6. CASE Yield
  BY <1>6 DEF Yield, words, waits, IInv, NoLostWakeup, TypeOK, NumbersKept
<1>7. CASE SetCanSleep
  BY <1>7 DEF SetCanSleep, words, waits, IInv, NoLostWakeup, TypeOK, NumbersKept
<1>8. CASE UNCHANGED vars
  BY <1>8 DEF vars, words, waits, IInv, NoLostWakeup, TypeOK, NumbersKept
<1> QED BY <1>1, <1>2, <1>3, <1>4, <1>5, <1>6, <1>7, <1>8 DEF Next, Aborted

-----------------------------------------------------------------------------
(* The theorems.                                                           *)

\* No receiver ever sleeps beside a message and no sender beside a free slot, whoever
\* empties or fills the buffer between a wakeup and the woken thread's next look.
THEOREM WakeupsArrive == Spec => []NoLostWakeup
<1>1. IInv => NoLostWakeup
  BY DEF IInv
<1> QED BY InitInv, NextInv, <1>1, PTL DEF Spec

\* The messages in the ring, oldest first.
Ring == [i \in 1 .. used |-> slots[(first + i - 1) % Capacity]]

LEMMA RingFacts ==
  ASSUME TypeOK
  PROVE  /\ Ring \in Seq(0 .. MaxSent) /\ Len(Ring) = used
         /\ \A i \in 1 .. used : Ring[i] = slots[(first + (i - 1)) % Capacity]
<1>1. used \in Nat /\ used <= Capacity /\ first \in Slots /\ Capacity \in Nat
  BY QueueAssumption DEF TypeOK
<1>2. ASSUME NEW i \in 1 .. used
      PROVE  /\ first + i - 1 = first + (i - 1)
             /\ (first + (i - 1)) % Capacity \in Slots
  <2>1. i - 1 \in 0 .. Capacity
    BY <1>1
  <2> QED BY <1>1, <2>1, WrappedSlot DEF Slots
<1>3. \A i \in 1 .. used : slots[(first + i - 1) % Capacity] \in 0 .. MaxSent
  BY <1>2 DEF TypeOK
<1>4. Ring \in Seq(0 .. MaxSent)
  BY <1>1, <1>3, IsASeq DEF Ring
<1> QED BY <1>1, <1>2, <1>4 DEF Ring

LEMMA ReceiveFoundTakes == IInv /\ IInv' /\ ReceiveFound => Channel!Take
<1> SUFFICES ASSUME IInv, IInv', ReceiveFound PROVE Channel!Take
  OBVIOUS
<1>1. /\ TypeOK /\ TypeOK' /\ used \in 1 .. Capacity /\ first \in Slots /\ Capacity \in Nat \ {0}
      /\ taken' = slots[first] /\ first' = (first + 1) % Capacity /\ used' = used - 1
      /\ slots' = slots /\ sent' = sent
  BY QueueAssumption DEF IInv, NoLostWakeup, TypeOK, ReceiveFound, DequeueMessage
<1>2. /\ Ring \in Seq(0 .. MaxSent) /\ Len(Ring) = used
      /\ \A i \in 1 .. used : Ring[i] = slots[(first + (i - 1)) % Capacity]
  BY <1>1, RingFacts
<1>3. /\ Ring' \in Seq(0 .. MaxSent) /\ Len(Ring') = used - 1
      /\ \A i \in 1 .. used - 1 : Ring'[i] = slots[(((first + 1) % Capacity) + (i - 1)) % Capacity]
  <2>1. (TypeOK => /\ Ring \in Seq(0 .. MaxSent) /\ Len(Ring) = used
                   /\ \A i \in 1 .. used : Ring[i] = slots[(first + (i - 1)) % Capacity])'
    BY RingFacts, PTL
  <2> QED BY <1>1, <2>1
<1>4. Ring # <<>>
  BY <1>1, <1>2
<1>5. Head(Ring) = slots[first]
  <2>1. (first + 0) % Capacity = first
    <3>1. 0 \in 0 .. Capacity /\ first \in Nat /\ first < Capacity
      BY <1>1 DEF Slots
    <3> QED BY <1>1, <3>1, Wrapped
  <2> QED BY <1>1, <1>2, <2>1
<1>6. Ring' = Tail(Ring)
  <2>1. Tail(Ring) \in Seq(0 .. MaxSent) /\ Len(Tail(Ring)) = used - 1
        /\ \A i \in 1 .. used - 1 : Tail(Ring)[i] = Ring[i + 1]
    BY <1>1, <1>2, <1>4, HeadTailProperties
  <2>2. ASSUME NEW i \in 1 .. used - 1 PROVE Ring'[i] = Tail(Ring)[i]
    <3>1. i - 1 \in 0 .. Capacity - 1 /\ (i - 1) + 1 = (i + 1) - 1 /\ i + 1 \in 1 .. used
      BY <1>1
    <3>2. (((first + 1) % Capacity) + (i - 1)) % Capacity = (first + ((i + 1) - 1)) % Capacity
      BY <1>1, <3>1, SecondSlot
    <3> QED BY <1>2, <1>3, <2>1, <3>1, <3>2
  <2> QED BY <1>3, <2>1, <2>2, SeqEqual
<1> QED BY <1>1, <1>4, <1>5, <1>6 DEF Channel!Take, Ring

LEMMA SendFitsPuts == IInv /\ IInv' /\ SendFits => Channel!Put
<1> SUFFICES ASSUME IInv, IInv', SendFits PROVE Channel!Put
  OBVIOUS
<1>1. /\ TypeOK /\ TypeOK' /\ used \in 0 .. Capacity - 1 /\ first \in Slots /\ Capacity \in Nat \ {0}
      /\ sent' = sent + 1 /\ slots' = [slots EXCEPT ![(first + used) % Capacity] = sent']
      /\ used' = used + 1 /\ first' = first /\ taken' = taken
      /\ slots \in [Slots -> 0 .. MaxSent] /\ sent' \in 0 .. MaxSent
  BY QueueAssumption DEF IInv, NoLostWakeup, TypeOK, SendFits
<1>2. /\ Ring \in Seq(0 .. MaxSent) /\ Len(Ring) = used
      /\ \A i \in 1 .. used : Ring[i] = slots[(first + (i - 1)) % Capacity]
  BY <1>1, RingFacts
<1>3. /\ Ring' \in Seq(0 .. MaxSent) /\ Len(Ring') = used + 1
      /\ \A i \in 1 .. used + 1 : Ring'[i] = slots'[(first + (i - 1)) % Capacity]
  <2>1. (TypeOK => /\ Ring \in Seq(0 .. MaxSent) /\ Len(Ring) = used
                   /\ \A i \in 1 .. used : Ring[i] = slots[(first + (i - 1)) % Capacity])'
    BY RingFacts, PTL
  <2> QED BY <1>1, <2>1
<1>4. ASSUME NEW i \in 1 .. used + 1
      PROVE  slots'[(first + (i - 1)) % Capacity]
               = IF i = used + 1 THEN sent' ELSE slots[(first + (i - 1)) % Capacity]
  <2>1. i - 1 \in 0 .. Capacity - 1 /\ i - 1 \in 0 .. Capacity /\ used \in 0 .. Capacity
    BY <1>1
  <2>2. (first + (i - 1)) % Capacity \in Slots /\ (first + used) % Capacity \in Slots
    BY <1>1, <2>1, WrappedSlot
  <2>3. CASE i = used + 1
    <3>1. i - 1 = used
      BY <1>1, <2>3
    <3> QED BY <1>1, <2>2, <2>3, <3>1
  <2>4. CASE i # used + 1
    <3>1. i - 1 # used
      BY <1>1, <2>4
    <3>2. (first + (i - 1)) % Capacity # (first + used) % Capacity
      BY <1>1, <2>1, <3>1, SlotsApart
    <3> QED BY <1>1, <2>2, <2>4, <3>2
  <2> QED BY <2>3, <2>4
<1>5. Ring' = Append(Ring, sent')
  <2>1. /\ Append(Ring, sent') \in Seq(0 .. MaxSent) /\ Len(Append(Ring, sent')) = used + 1
        /\ \A i \in 1 .. used + 1 : Append(Ring, sent')[i] = IF i = used + 1 THEN sent' ELSE Ring[i]
    BY <1>1, <1>2, AppendProperties
  <2>2. ASSUME NEW i \in 1 .. used + 1 PROVE Ring'[i] = Append(Ring, sent')[i]
    <3>1. i # used + 1 => i \in 1 .. used
      BY <1>1
    <3> QED BY <1>2, <1>3, <1>4, <2>1, <3>1
  <2> QED BY <1>3, <2>1, <2>2, SeqEqual
<1>6. Len(Ring) < Capacity
  BY <1>1, <1>2
<1> QED BY <1>1, <1>5, <1>6 DEF Channel!Put, Ring

\* The ring with its indices is a first-in first-out channel: nothing is lost, nothing
\* comes twice or overtakes, whoever wakes whom meanwhile.
THEOREM RingIsChannel == Spec => ImplementsChannel
<1>1. Init => Channel!Init
  <2> SUFFICES ASSUME Init PROVE Channel!Init
    OBVIOUS
  <2>1. [i \in 1 .. used |-> slots[(first + i - 1) % Capacity]] = <<>>
    BY DEF Init
  <2> QED BY <2>1 DEF Init, Channel!Init
<1>2. IInv /\ IInv' /\ [Next]_vars => [Channel!Next]_(Channel!vars)
  <2> SUFFICES ASSUME IInv, IInv', [Next]_vars PROVE Channel!Next \/ UNCHANGED Channel!vars
    OBVIOUS
  <2>1. CASE ReceiveFound
    BY <2>1, ReceiveFoundTakes DEF Channel!Next
  <2>2. CASE SendFits
    BY <2>2, SendFitsPuts DEF Channel!Next
  <2>3. CASE InitMessageQueue
    <3>1. [i \in 1 .. used' |-> slots'[(first' + i - 1) % Capacity]] = <<>>
      BY <2>3 DEF InitMessageQueue
    <3> QED BY <2>3, <3>1 DEF InitMessageQueue, Channel!Next, Channel!Reset
  <2>4. CASE UNCHANGED <<words, sent, taken>>
    BY <2>4 DEF words, Channel!vars
  <2> QED BY <2>1, <2>2, <2>3, <2>4 DEF Next, vars, ReceiveMessage, ReceiveRetries, SendMessage,
                SendRetries, ReceiveParks, SendParks, Yield, SetCanSleep, Aborted
<1> QED BY <1>1, <1>2, InitInv, NextInv, PTL DEF Spec, ImplementsChannel, Channel!Spec

=============================================================================
