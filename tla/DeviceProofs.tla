------------------------------ MODULE DeviceProofs ------------------------------
(***************************************************************************)
(* The safety of what serves the guest its devices: the callback pump, for *)
(* every set of threads, every limit and any number of operations; the     *)
(* NAND files, for any infos, paths and opens; the video interface for any *)
(* threads, frame buffers and retraces.                                    *)
(*                                                                         *)
(* Of the pump, three facts keep each other true.  OneOrder: what was      *)
(* called and what waits together are the operations in their order.       *)
(* OnePump: the depth, one variable for all host stacks, is exactly the    *)
(* number of pumps that are on them, and that is never two.  Confined:     *)
(* until a callback makes SelectThread switch threads, only the running    *)
(* thread is in a callback, its own registers wait in the shared           *)
(* CpuContext meanwhile, and those of all other threads in their records.  *)
(*                                                                         *)
(* The two other parts are the instances of module MCDevices.              *)
(***************************************************************************)
EXTENDS DeferredCallbacks, MCDevices, QueueTheorems, FiniteSetTheorems, Integers, TLAPS

\* Operations come in their order, each at most once.
InOrder(s) == \A i, j \in 1 .. Len(s) : i < j => s[i] < s[j]

\* The operations s has are those of numbers.
Has(s, numbers) == \A n \in Nat : n \in numbers <=> \E i \in 1 .. Len(s) : s[i] = n

OneOrder ==
  /\ dropped \subseteq 1 .. issued
  /\ InOrder(delivered \o pending)
  /\ Has(delivered \o pending, 1 .. issued \ dropped)

OnePump ==
  /\ depth \in {0, 1}
  /\ \A t \in Threads : Len(pumps[t]) <= depth
  /\ \A t, u \in Threads : InCallback(t) /\ InCallback(u) => t = u

Confined ==
  confined =>
    /\ \A t \in Threads : pointer[t] = Shared
    /\ \A t \in Threads \ {running} : ~InCallback(t) /\ saved[t] = Of(t, "own")
    /\ contents[Shared] = Of(running, "own")
    /\ InCallback(running) => contents[running] = Of(running, "callback")

IInv == TypeOK /\ OneOrder /\ OnePump /\ DrainedOnReturn /\ Confined

-----------------------------------------------------------------------------
(* Sequences of operations.                                                *)

\* Taking the head of the queue and calling it leaves the joint sequence as it is.
LEMMA HeadMoved ==
  ASSUME NEW S, NEW s \in Seq(S), NEW q \in Seq(S), q # <<>>
  PROVE  Append(s, Head(q)) \o Tail(q) = s \o q
<1>1. Append(s, Head(q)) \in Seq(S) /\ Len(Append(s, Head(q))) = Len(s) + 1
  BY HeadTailProperties, AppendProperties
<1>2. Tail(q) \in Seq(S) /\ Len(Tail(q)) = Len(q) - 1 /\ Len(q) >= 1
  BY HeadTailProperties
<1>3. Append(s, Head(q)) \o Tail(q) \in Seq(S) /\ s \o q \in Seq(S)
  BY <1>1, <1>2, ConcatProperties
<1>4. Len(Append(s, Head(q)) \o Tail(q)) = Len(s \o q)
  BY <1>1, <1>2, ConcatProperties
<1>5. ASSUME NEW i \in 1 .. Len(s \o q)
      PROVE  (Append(s, Head(q)) \o Tail(q))[i] = (s \o q)[i]
  BY <1>1, <1>2
<1> QED BY <1>3, <1>4, <1>5, SeqEqual

LEMMA QueuedLast ==
  ASSUME NEW S, NEW s \in Seq(S), NEW q \in Seq(S), NEW x \in S
  PROVE  s \o Append(q, x) = Append(s \o q, x)
<1>1. s \o Append(q, x) \in Seq(S) /\ Append(s \o q, x) \in Seq(S)
  BY ConcatProperties, AppendProperties
<1>2. Len(s \o Append(q, x)) = Len(Append(s \o q, x))
  BY ConcatProperties, AppendProperties
<1>3. ASSUME NEW i \in 1 .. Len(s \o Append(q, x))
      PROVE  (s \o Append(q, x))[i] = Append(s \o q, x)[i]
  OBVIOUS
<1> QED BY <1>1, <1>2, <1>3, SeqEqual

LEMMA OneElement ==
  ASSUME NEW S, NEW s \in Seq(S), s # <<>>, Len(s) <= 1
  PROVE  s[1] \in S /\ s = <<s[1]>>
<1>1. Len(s) \in Nat /\ Len(s) # 0
  BY EmptySeq
<1>2. Len(s) = 1
  BY <1>1
<1>3. s[1] \in S
  BY <1>2, ElementOfSeq
<1> QED BY <1>2, <1>3

\* The next operation goes last, or is dropped.
LEMMA NextOperation ==
  ASSUME NEW n \in Nat, NEW s \in Seq(Nat), NEW d \in SUBSET (1 .. n),
         InOrder(s), Has(s, 1 .. n \ d)
  PROVE  /\ InOrder(Append(s, n + 1)) /\ Has(Append(s, n + 1), 1 .. n + 1 \ d)
         /\ Has(s, 1 .. n + 1 \ (d \cup {n + 1}))
<1> DEFINE longer == Append(s, n + 1)
<1>1. /\ Len(longer) = Len(s) + 1 /\ Len(s) \in Nat
      /\ \A i \in 1 .. Len(s) : longer[i] = s[i]
      /\ longer[Len(s) + 1] = n + 1
  BY AppendProperties
<1>2. ASSUME NEW i \in 1 .. Len(s) PROVE s[i] \in 1 .. n /\ s[i] \notin d
  <2>1. s[i] \in Nat
    BY ElementOfSeq
  <2> QED BY <2>1 DEF Has
<1>3. InOrder(longer)
  <2>1. \A i, j \in 1 .. Len(s) : i < j => s[i] < s[j]
    BY DEF InOrder
  <2>2. \A i \in 1 .. Len(s) : s[i] < n + 1
    BY <1>2
  <2>3. ASSUME NEW i \in 1 .. Len(s) + 1, NEW j \in 1 .. Len(s) + 1, i < j
        PROVE  longer[i] < longer[j]
    <3>1. i \in 1 .. Len(s) /\ (j = Len(s) + 1 \/ j \in 1 .. Len(s))
      BY ONLY <2>3, Len(s) \in Nat, <1>1
    <3>2. CASE j = Len(s) + 1
      BY <1>1, <2>2, <3>1, <3>2
    <3>3. CASE j \in 1 .. Len(s)
      BY <1>1, <2>1, <2>3, <3>1, <3>3
    <3> QED BY <3>1, <3>2, <3>3
  <2> HIDE DEF longer
  <2> QED BY <1>1, <2>3 DEF InOrder
<1>4. ASSUME NEW m \in Nat
      PROVE  m \in 1 .. n + 1 \ d <=> \E i \in 1 .. Len(longer) : longer[i] = m
  <2>1. m \in 1 .. n \ d <=> \E i \in 1 .. Len(s) : s[i] = m
    BY DEF Has
  <2>2. (\E i \in 1 .. Len(longer) : longer[i] = m) <=> m = n + 1 \/ \E i \in 1 .. Len(s) : s[i] = m
    BY <1>1
  <2> QED BY <2>1, <2>2
<1>5. Has(s, 1 .. n + 1 \ (d \cup {n + 1}))
  BY DEF Has
<1> QED BY <1>3, <1>4, <1>5 DEF Has

-----------------------------------------------------------------------------
(* The invariant holds initially ...                                       *)

LEMMA InitInv == Init => IInv
<1> SUFFICES ASSUME Init PROVE IInv
  OBVIOUS
<1>1. TypeOK
  <2>1. \A t \in Threads : Of(t, "own") \in Registers
    BY DEF Registers, Levels, Of
  <2>2. pending \in Seq(1 .. MaxOps) /\ delivered \in Seq(1 .. MaxOps) /\ issued \in 0 .. MaxOps
    BY ConstantsAssumption DEF Init
  <2>3. pumps \in [Threads -> Seq(1 .. DrainLimit)]
    BY DEF Init
  <2>4. saved \in [Threads -> Registers] /\ contents \in [Contexts -> Registers]
    BY <2>1, ConstantsAssumption DEF Init
  <2> QED BY <2>2, <2>3, <2>4, ConstantsAssumption DEF Init, TypeOK, Contexts
<1>2. delivered \o pending = <<>>
  BY DEF Init
<1>3. OneOrder
  BY <1>2 DEF Init, OneOrder, InOrder, Has
<1>4. OnePump /\ DrainedOnReturn /\ Confined
  BY ConstantsAssumption DEF Init, OnePump, InCallback, DrainedOnReturn, Confined, Contexts
<1> QED BY <1>1, <1>3, <1>4 DEF IInv

(* ... and every step keeps it.  What a delivery does is the same whoever  *)
(* takes the callback: the running thread's only pump counts one more.     *)

LEMMA Delivered ==
  ASSUME IInv, NEW queue \in Seq(1 .. MaxOps), queue # <<>>, NEW taken \in 1 .. DrainLimit,
         Deliver(queue, <<taken>>)
  PROVE  /\ pending' \in Seq(1 .. MaxOps) /\ delivered' \in Seq(1 .. MaxOps)
         /\ delivered' \o pending' = delivered \o queue
         /\ pumps' = [pumps EXCEPT ![running] = <<taken>>]
         /\ pumps' \in [Threads -> Seq(1 .. DrainLimit)]
         /\ contents' = [contents EXCEPT ![running] = Of(running, "callback")]
         /\ contents' \in [Contexts -> Registers]
<1>1. delivered \in Seq(1 .. MaxOps) /\ running \in Threads /\ contents \in [Contexts -> Registers]
      /\ pumps \in [Threads -> Seq(1 .. DrainLimit)]
  BY DEF IInv, TypeOK
<1>2. pending' = Tail(queue) /\ delivered' = Append(delivered, Head(queue))
  BY DEF Deliver
<1>3. delivered' \o pending' = delivered \o queue
  BY <1>1, <1>2, HeadMoved
<1>4. pending' \in Seq(1 .. MaxOps) /\ delivered' \in Seq(1 .. MaxOps)
  BY <1>1, <1>2, HeadTailProperties, AppendProperties
<1>5. pumps' = [pumps EXCEPT ![running] = <<taken>>] /\ <<taken>> \in Seq(1 .. DrainLimit)
  BY DEF Deliver
<1>6. contents' = [contents EXCEPT ![running] = Of(running, "callback")]
  BY DEF Deliver, CallbackContext
<1>7. Of(running, "callback") \in Registers
  BY <1>1 DEF Of, Registers, Levels
<1> QED BY <1>1, <1>3, <1>4, <1>5, <1>6, <1>7

LEMMA AsyncOperationInv ==
  ASSUME IInv, NEW callback \in Outcomes, AsyncOperation(callback)
  PROVE  IInv'
<1> DEFINE queue == Queued(callback)
<1>1. /\ pending \in Seq(1 .. MaxOps) /\ delivered \in Seq(1 .. MaxOps)
      /\ issued \in 0 .. MaxOps /\ MaxOps \in Nat /\ running \in Threads
      /\ dropped \subseteq 1 .. issued
      /\ pumps \in [Threads -> Seq(1 .. DrainLimit)]
      /\ DrainLimit \in Nat \ {0}
  BY ConstantsAssumption DEF IInv, TypeOK, OneOrder
<1>2. issued' \in issued .. issued + 1 /\ issued' \in 0 .. MaxOps
  BY <1>1 DEF AsyncOperation
<1>3. queue \in Seq(1 .. MaxOps)
  <2>1. CASE callback = "stored"
    <3>1. issued + 1 \in 1 .. MaxOps
      BY <1>1, <2>1 DEF AsyncOperation
    <3> QED BY <1>1, <2>1, <3>1, AppendProperties DEF Queued
  <2>2. CASE callback # "stored"
    BY <1>1, <2>2 DEF Queued
  <2> QED BY <2>1, <2>2
<1>4. /\ dropped' \subseteq 1 .. issued'
      /\ InOrder(delivered \o queue) /\ Has(delivered \o queue, 1 .. issued' \ dropped')
  <2> DEFINE s == delivered \o pending
  <2>1. s \in Seq(Nat) /\ delivered \in Seq(Nat) /\ pending \in Seq(Nat)
    <3>1. 1 .. MaxOps \subseteq Nat
      BY <1>1
    <3>2. delivered \in Seq(Nat) /\ pending \in Seq(Nat)
      BY <1>1, <3>1, SeqMonotonic
    <3> QED BY <3>2, ConcatProperties
  <2>2. InOrder(s) /\ Has(s, 1 .. issued \ dropped)
    BY DEF IInv, OneOrder
  <2>3. /\ InOrder(Append(s, issued + 1)) /\ Has(Append(s, issued + 1), 1 .. issued + 1 \ dropped)
        /\ Has(s, 1 .. issued + 1 \ (dropped \cup {issued + 1}))
    <3>1. issued \in Nat /\ dropped \in SUBSET (1 .. issued)
      BY <1>1
    <3> HIDE DEF s
    <3> QED BY <3>1, <2>1, <2>2, NextOperation
  <2>4. delivered \o Append(pending, issued + 1) = Append(s, issued + 1)
    BY <1>1, <2>1, QueuedLast
  <2>5. CASE callback = "null"
    BY <1>1, <2>2, <2>5 DEF AsyncOperation, Queued
  <2>6. CASE callback = "stored"
    <3>1. /\ queue = Append(pending, issued + 1) /\ issued' = issued + 1 /\ dropped' = dropped
      BY <2>6 DEF AsyncOperation, Queued
    <3>2. dropped' \subseteq 1 .. issued'
      BY <1>1, <3>1
    <3>3. delivered \o queue = Append(s, issued + 1)
      BY <3>1, <2>4
    <3> HIDE DEF s, queue
    <3> QED BY <3>1, <3>2, <3>3, <2>3
  <2>7. CASE callback = "dropped"
    BY <1>1, <2>2, <2>3, <2>7 DEF AsyncOperation, Queued
  <2> QED BY <2>5, <2>6, <2>7 DEF Outcomes
<1>5. UNCHANGED <<running, started, pointer, saved, active, confined>>
  BY DEF AsyncOperation
<1>6. CASE depth # 0 \/ queue = <<>>
  <2>1. pending' = queue /\ UNCHANGED <<depth, pumps, delivered, contents, limited>>
    BY <1>6 DEF AsyncOperation
  <2>2. TypeOK'
    BY <1>1, <1>2, <1>3, <1>4, <1>5, <2>1 DEF IInv, TypeOK
  <2>3. OneOrder'
    BY <1>4, <2>1 DEF OneOrder, InOrder, Has
  <2>4. DrainedOnReturn'
    BY <1>6, <2>1 DEF DrainedOnReturn
  <2>5. OnePump' /\ Confined'
    BY <1>5, <2>1 DEF IInv, OnePump, Confined, InCallback
  <2> QED BY <2>2, <2>3, <2>4, <2>5 DEF IInv
<1>7. CASE depth = 0 /\ queue # <<>>
  <2>1. \A t \in Threads : pumps[t] = <<>>
    BY <1>1, <1>7, EmptySeq DEF IInv, OnePump
  <2>2. Append(pumps[running], 1) = <<1>>
    <3>1. pumps[running] = <<>>
      BY <1>1, <2>1
    <3>2. Append(<<>>, 1) = <<1>>
      OBVIOUS
    <3> QED BY <3>1, <3>2
  <2>3. depth' = 1 /\ limited' = FALSE /\ Deliver(queue, <<1>>)
    BY <1>7, <2>2 DEF AsyncOperation
  <2>4. 1 \in 1 .. DrainLimit
    BY <1>1
  <2>5. /\ pending' \in Seq(1 .. MaxOps) /\ delivered' \in Seq(1 .. MaxOps)
        /\ delivered' \o pending' = delivered \o queue
        /\ pumps' = [pumps EXCEPT ![running] = <<1>>]
        /\ pumps' \in [Threads -> Seq(1 .. DrainLimit)]
        /\ contents' = [contents EXCEPT ![running] = Of(running, "callback")]
        /\ contents' \in [Contexts -> Registers]
    BY <1>3, <1>7, <2>3, <2>4, Delivered
  <2>6. TypeOK'
    <3>1. dropped' \subseteq 1 .. MaxOps /\ depth' \in Nat /\ limited' \in BOOLEAN
      <4>1. \A n \in 1 .. issued' : n \in 1 .. MaxOps
        BY <1>1, <1>2
      <4>2. depth' = 1 /\ limited' = FALSE
        BY <2>3
      <4> QED BY <1>4, <4>1, <4>2
    <3> QED BY <1>2, <1>5, <2>5, <3>1 DEF IInv, TypeOK
  <2>7. OneOrder'
    BY <1>4, <2>5 DEF OneOrder, InOrder, Has
  <2>8. OnePump'
    BY <1>1, <2>1, <2>3, <2>5 DEF OnePump, InCallback
  <2>9. Confined'
    BY <1>1, <1>5, <2>1, <2>5, ConstantsAssumption DEF IInv, TypeOK, Confined, InCallback, Contexts
  <2> QED BY <2>3, <2>6, <2>7, <2>8, <2>9 DEF IInv, DrainedOnReturn
<1> QED BY <1>6, <1>7

LEMMA CallbackReturnsInv == IInv /\ CallbackReturns => IInv'
<1> SUFFICES ASSUME IInv, CallbackReturns PROVE IInv'
  OBVIOUS
<1>1. /\ pending \in Seq(1 .. MaxOps) /\ delivered \in Seq(1 .. MaxOps)
      /\ running \in Threads /\ contents \in [Contexts -> Registers]
      /\ pumps \in [Threads -> Seq(1 .. DrainLimit)]
      /\ DrainLimit \in Nat \ {0}
  BY ConstantsAssumption DEF IInv, TypeOK
<1>2. UNCHANGED <<issued, dropped, running, started, pointer, saved, active, confined>>
  BY DEF CallbackReturns
\* The one pump there is, with the callbacks it has taken.
<1>3. PICK taken \in 1 .. DrainLimit : pumps[running] = <<taken>>
  <2>1. pumps[running] # <<>> /\ Len(pumps[running]) <= 1 /\ pumps[running] \in Seq(1 .. DrainLimit)
    BY <1>1 DEF IInv, OnePump, CallbackReturns, InCallback
  <2> QED BY <2>1, OneElement
<1>4. /\ Last(pumps[running]) = taken /\ Front(pumps[running]) = <<>>
      /\ depth = 1 /\ \A t \in Threads \ {running} : pumps[t] = <<>>
  <2>1. Len(<<taken>>) = 1 /\ <<taken>>[1] = taken /\ SubSeq(<<taken>>, 1, 0) = <<>>
    OBVIOUS
  <2>2. Last(pumps[running]) = taken /\ Front(pumps[running]) = <<>>
    BY <1>3, <2>1 DEF Last, Front
  <2>3. depth = 1
    <3>1. depth \in {0, 1} /\ Len(<<taken>>) <= depth
      BY <1>1, <1>3 DEF IInv, OnePump
    <3> QED BY <2>1, <3>1
  <2>4. InCallback(running)
    BY DEF CallbackReturns
  <2>5. \A t \in Threads \ {running} : pumps[t] = <<>>
    BY <1>1, <2>4 DEF IInv, OnePump, InCallback
  <2> QED BY <2>2, <2>3, <2>5
<1>5. CASE taken < DrainLimit /\ pending # <<>>
  <2>1. UNCHANGED <<depth, limited>> /\ Deliver(pending, <<taken + 1>>)
    BY <1>4, <1>5 DEF CallbackReturns
  <2>2. taken + 1 \in 1 .. DrainLimit
    BY <1>1, <1>5
  <2>3. /\ pending' \in Seq(1 .. MaxOps) /\ delivered' \in Seq(1 .. MaxOps)
        /\ delivered' \o pending' = delivered \o pending
        /\ pumps' = [pumps EXCEPT ![running] = <<taken + 1>>]
        /\ pumps' \in [Threads -> Seq(1 .. DrainLimit)]
        /\ contents' = [contents EXCEPT ![running] = Of(running, "callback")]
        /\ contents' \in [Contexts -> Registers]
    BY <1>1, <1>5, <2>1, <2>2, Delivered
  <2>4. TypeOK'
    BY <1>2, <2>1, <2>3 DEF IInv, TypeOK
  <2>5. OneOrder'
    BY <1>2, <2>3 DEF IInv, OneOrder, InOrder, Has
  <2>6. OnePump' /\ DrainedOnReturn'
    BY <1>1, <1>4, <2>1, <2>3 DEF OnePump, DrainedOnReturn, InCallback
  <2>7. Confined'
    BY <1>1, <1>2, <1>4, <2>3, ConstantsAssumption DEF IInv, TypeOK, Confined, InCallback, Contexts
  <2> QED BY <2>4, <2>5, <2>6, <2>7 DEF IInv
<1>6. CASE ~(taken < DrainLimit /\ pending # <<>>)
  <2>1. /\ depth' = 0 /\ pumps' = [pumps EXCEPT ![running] = <<>>]
        /\ limited' = (taken = DrainLimit) /\ UNCHANGED <<pending, delivered, contents>>
    BY <1>4, <1>6 DEF CallbackReturns
  <2>2. TypeOK'
    BY <1>1, <1>2, <2>1 DEF IInv, TypeOK
  <2>3. OneOrder'
    BY <1>2, <2>1 DEF IInv, OneOrder, InOrder, Has
  <2>4. OnePump'
    BY <1>1, <1>4, <2>1 DEF OnePump, InCallback
  <2>5. DrainedOnReturn'
    <3>1. pending = <<>> \/ taken = DrainLimit
      BY <1>1, <1>6
    <3>2. pending' = <<>> \/ limited'
      BY <3>1, <2>1
    <3> QED BY <3>2 DEF DrainedOnReturn
  <2>6. Confined'
    BY <1>1, <1>2, <2>1 DEF IInv, Confined, InCallback
  <2> QED BY <2>2, <2>3, <2>4, <2>5, <2>6 DEF IInv
<1> QED BY <1>5, <1>6

LEMMA SwitchToInv ==
  ASSUME IInv, NEW t \in Threads, SwitchTo(t)
  PROVE  IInv'
<1> DEFINE c == ContextOf(running)
           loaded == [contents EXCEPT ![c] = saved[t]]
<1>1. /\ running \in Threads /\ contents \in [Contexts -> Registers] /\ saved \in [Threads -> Registers]
      /\ pointer \in [Threads -> Contexts] /\ active \in Contexts /\ started \subseteq Threads
      /\ c \in Contexts /\ t # running
  BY DEF IInv, TypeOK, ContextOf, Contexts, SwitchTo
<1>2. UNCHANGED pumpVars /\ running' = t /\ started' = started \cup {t}
      /\ confined' = (confined /\ ~InCallback(running))
      /\ saved' = [saved EXCEPT ![running] = contents[c]]
  BY DEF SwitchTo
<1>3. \/ /\ contents' = [loaded EXCEPT ![ContextOf(t)] = saved[t]]
         /\ active' = ContextOf(t) /\ pointer' = pointer
      \/ /\ contents' = [loaded EXCEPT ![c] = Of(t, "own")]
         /\ active' = c /\ pointer' = [pointer EXCEPT ![t] = c]
  BY DEF SwitchTo
<1>4. Of(t, "own") \in Registers /\ ContextOf(t) \in Contexts
  BY <1>1 DEF Of, Registers, Levels, ContextOf, Contexts
<1>5. TypeOK'
  <2>1. saved' \in [Threads -> Registers] /\ loaded \in [Contexts -> Registers]
    BY <1>1, <1>2
  <2>2. contents' \in [Contexts -> Registers] /\ active' \in Contexts /\ pointer' \in [Threads -> Contexts]
    BY <1>1, <1>3, <1>4, <2>1
  <2> QED BY <1>1, <1>2, <2>1, <2>2 DEF IInv, TypeOK, pumpVars
<1>6. OneOrder' /\ OnePump' /\ DrainedOnReturn'
  BY <1>2 DEF IInv, OneOrder, InOrder, Has, OnePump, DrainedOnReturn, InCallback, pumpVars
<1>7. Confined'
  <2> SUFFICES ASSUME confined, ~InCallback(running)
               PROVE  /\ \A u \in Threads : pointer'[u] = Shared
                      /\ \A u \in Threads \ {t} : ~InCallback(u)' /\ saved'[u] = Of(u, "own")
                      /\ contents'[Shared] = Of(t, "own")
                      /\ ~InCallback(t)'
    BY <1>2 DEF Confined
  <2>1. /\ \A u \in Threads : pointer[u] = Shared
        /\ \A u \in Threads \ {running} : ~InCallback(u) /\ saved[u] = Of(u, "own")
        /\ contents[Shared] = Of(running, "own")
    BY DEF IInv, Confined
  <2>2. c = Shared /\ ContextOf(t) = Shared /\ saved[t] = Of(t, "own")
    BY <1>1, <2>1 DEF ContextOf
  <2>3. Shared \in Contexts
    BY DEF Contexts
  <2>4. contents'[Shared] = Of(t, "own") /\ \A u \in Threads : pointer'[u] = Shared
    BY <1>1, <1>3, <2>1, <2>2, <2>3
  <2>5. \A u \in Threads \ {t} : saved'[u] = Of(u, "own")
    BY <1>1, <1>2, <2>1, <2>2
  <2>6. \A u \in Threads : ~InCallback(u)'
    BY <1>1, <1>2, <2>1 DEF InCallback, pumpVars
  <2> QED BY <2>4, <2>5, <2>6
<1> QED BY <1>5, <1>6, <1>7 DEF IInv

-----------------------------------------------------------------------------
(* The theorems.                                                           *)

\* The inductive invariant that the others follow from.
THEOREM PumpInvariant == Spec => []IInv
<1>1. IInv /\ [Next]_vars => IInv'
  <2> SUFFICES ASSUME IInv, [Next]_vars PROVE IInv'
    OBVIOUS
  <2>1. ASSUME NEW callback \in Outcomes, AsyncOperation(callback) PROVE IInv'
    BY <2>1, AsyncOperationInv
  <2>2. CASE CallbackReturns
    BY <2>2, CallbackReturnsInv
  <2>3. ASSUME NEW t \in Threads, SwitchTo(t) PROVE IInv'
    BY <2>3, SwitchToInv
  <2>4. CASE UNCHANGED vars
    BY <2>4 DEF IInv, vars, pumpVars, fiberVars, TypeOK, OneOrder, InOrder, Has, OnePump, InCallback,
                DrainedOnReturn, Confined
  <2> QED BY <2>1, <2>2, <2>3, <2>4 DEF Next
<1> QED BY InitInv, <1>1, PTL DEF Spec

\* Every operation's callback is called at most once, in the order of the operations,
\* never inside another, and none but the dropped ones is missing from the callbacks
\* called and those waiting.
THEOREM CallbacksInOrder == Spec => []DeliveredInOrder
<1>1. IInv => DeliveredInOrder
  <2> SUFFICES ASSUME IInv PROVE DeliveredInOrder
    OBVIOUS
  <2> DEFINE queued == delivered \o pending
  <2>1. queued \in Seq(1 .. MaxOps) /\ 1 .. MaxOps \subseteq Nat /\ MaxOps \in Nat /\ issued \in Nat
    BY ConcatProperties, ConstantsAssumption DEF IInv, TypeOK
  <2>2. DOMAIN queued = 1 .. Len(queued)
    BY <2>1
  <2>3. \A i, j \in DOMAIN queued : i < j => queued[i] < queued[j]
    BY <2>2 DEF IInv, OneOrder, InOrder
  <2>4. Range(queued) = 1 .. issued \ dropped
    <3>1. Range(queued) = {queued[i] : i \in 1 .. Len(queued)}
      BY <2>2 DEF Range
    <3>2. \A i \in 1 .. Len(queued) : queued[i] \in Nat
      BY <2>1, ElementOfSeq
    <3>3. \A n \in Nat : n \in 1 .. issued \ dropped <=> \E i \in 1 .. Len(queued) : queued[i] = n
      BY DEF IInv, OneOrder, Has
    <3>4. ASSUME NEW n \in Range(queued) PROVE n \in 1 .. issued \ dropped
      <4>1. PICK i \in 1 .. Len(queued) : n = queued[i]
        BY <3>1
      <4> HIDE DEF queued
      <4> QED BY <4>1, <3>2, <3>3
    <3>5. ASSUME NEW n \in 1 .. issued \ dropped PROVE n \in Range(queued)
      <4>1. n \in Nat
        BY <2>1
      <4> HIDE DEF queued
      <4> QED BY <4>1, <3>1, <3>3
    <3> QED BY <3>4, <3>5
  <2>5. \A t \in Threads : Len(pumps[t]) <= 1
    BY DEF IInv, OnePump
  <2>6. Cardinality({t \in Threads : InCallback(t)}) <= 1
    <3>1. CASE {t \in Threads : InCallback(t)} = {}
      BY <3>1, FS_EmptySet
    <3>2. CASE \E t \in Threads : InCallback(t)
      <4>1. PICK t \in Threads : InCallback(t)
        BY <3>2
      <4>2. {u \in Threads : InCallback(u)} = {t}
        BY <4>1 DEF IInv, OnePump
      <4> QED BY <4>2, FS_Singleton
    <3> QED BY <3>1, <3>2
  <2> QED BY <2>3, <2>4, <2>5, <2>6 DEF DeliveredInOrder, IInv
<1> QED BY <1>1, PumpInvariant, PTL

\* No callback is left behind by a pump, except by one that reached its limit.
THEOREM Drained == Spec => []DrainedOnReturn
<1>1. IInv => DrainedOnReturn
  BY DEF IInv
<1> QED BY <1>1, PumpInvariant, PTL

\* As long as no callback makes SelectThread switch, code finds its own registers, and
\* threads' own code works on the shared CpuContext.
THEOREM RegistersKeptWhileConfined == Spec => []KeptWhileConfined
<1>1. IInv => KeptWhileConfined
  BY DEF IInv, TypeOK, Confined, KeptWhileConfined, CallerRegistersKept, ContextOf, Level
<1> QED BY <1>1, PumpInvariant, PTL

(***************************************************************************)
(* NAND files                                                              *)
(***************************************************************************)
Wellformed(f) == f = [k \in DOMAIN f |-> f[k]]

\* Descriptors are never given twice, and streams are numbered like them.
Descriptors ==
  /\ nextFd \in Nat \ {0}
  /\ Wellformed(handles) /\ Wellformed(streams)
  /\ \A fd \in DOMAIN handles : fd \in Nat /\ fd < nextFd /\ handles[fd].file = fd
  /\ \A i \in Infos : descriptor[i] \in Nat /\ descriptor[i] < nextFd
  /\ \A i, j \in Infos : descriptor[i] = descriptor[j] /\ descriptor[i] \in DOMAIN handles => i = j
  /\ descriptor = [i \in Infos |-> descriptor[i]]
  /\ openFlag = [i \in Infos |-> openFlag[i]]
  /\ stream = [i \in Infos |-> [path |-> stream[i].path, read |-> stream[i].read]]

\* What an open info reads, with the path as the code computes it.
Reads(i) ==
  /\ openFlag[i] = 1 /\ descriptor[i] \in DOMAIN handles
  /\ stream[i].path \in GuestPaths /\ handles[descriptor[i]].path = Nand!Normalize(stream[i].path)
  /\ handles[descriptor[i]].file \in DOMAIN streams => streams[handles[descriptor[i]].file] = stream[i].read

NandInv ==
  /\ Descriptors
  /\ \A i \in Infos : stream[i] # Nand!Closed => Reads(i)
  /\ Nand!ClosedInfoReachesNothing

LEMMA NandInitially == Nand!Init => NandInv
<1> SUFFICES ASSUME Nand!Init PROVE NandInv
  OBVIOUS
<1>1. /\ descriptor = [i \in Infos |-> 0] /\ openFlag = [i \in Infos |-> 0] /\ nextFd = 1
      /\ handles = <<>> /\ streams = <<>> /\ stream = [i \in Infos |-> Nand!Closed]
  BY DEF Nand!Init
<1>2. DOMAIN handles = {} /\ DOMAIN streams = {} /\ Wellformed(handles) /\ Wellformed(streams)
  BY <1>1 DEF Wellformed
<1> QED BY <1>1, <1>2 DEF NandInv, Descriptors, Nand!Closed, Nand!ClosedInfoReachesNothing

\* An open that succeeds puts a new stream under a new descriptor.
LEMMA PutKeepsFiles ==
  ASSUME NandInv, NEW i \in Infos, NEW p \in GuestPaths,
         Nand!TakeStream, Nand!Put(i, p, Nand!Normalize(p))
  PROVE  NandInv'
<1> DEFINE path == Nand!Normalize(p)
           put == [path |-> path, file |-> nextFd]
           entry == [path |-> p, read |-> 0]
<1>1. /\ handles' = [n \in DOMAIN handles \cup {nextFd} |-> IF n = nextFd THEN put ELSE handles[n]]
      /\ streams' = [n \in DOMAIN streams \cup {nextFd} |-> IF n = nextFd THEN 0 ELSE streams[n]]
      /\ nextFd' = nextFd + 1 /\ descriptor' = [descriptor EXCEPT ![i] = nextFd] /\ openFlag' = [openFlag EXCEPT ![i] = 1]
      /\ stream' = [stream EXCEPT ![i] = entry]
  BY DEF Nand!TakeStream, Nand!Put
<1>2. /\ nextFd \in Nat \ {0} /\ nextFd \notin DOMAIN handles
      /\ \A fd \in DOMAIN handles : fd \in Nat /\ fd < nextFd /\ handles[fd].file = fd
      /\ \A j \in Infos : descriptor[j] \in Nat /\ descriptor[j] < nextFd
      /\ \A j, k \in Infos : descriptor[j] = descriptor[k] /\ descriptor[j] \in DOMAIN handles => j = k
      /\ descriptor = [j \in Infos |-> descriptor[j]] /\ openFlag = [j \in Infos |-> openFlag[j]]
      /\ stream = [j \in Infos |-> [path |-> stream[j].path, read |-> stream[j].read]]
  BY DEF NandInv, Descriptors
<1>3. put.path = path /\ put.file = nextFd /\ entry.path = p /\ entry.read = 0 /\ entry = [path |-> entry.path, read |-> entry.read]
  OBVIOUS
<1> HIDE DEF put, entry, path
<1>4. /\ descriptor'[i] = nextFd /\ openFlag'[i] = 1 /\ stream'[i] = entry
      /\ \A j \in Infos \ {i} : descriptor'[j] = descriptor[j] /\ openFlag'[j] = openFlag[j] /\ stream'[j] = stream[j]
      /\ DOMAIN handles' = DOMAIN handles \cup {nextFd} /\ handles'[nextFd] = put
      /\ \A fd \in DOMAIN handles : handles'[fd] = handles[fd]
      /\ DOMAIN streams' = DOMAIN streams \cup {nextFd} /\ streams'[nextFd] = 0
      /\ \A n \in DOMAIN streams \ {nextFd} : streams'[n] = streams[n]
  BY <1>1, <1>2
<1>5. /\ descriptor' = [j \in Infos |-> descriptor'[j]] /\ openFlag' = [j \in Infos |-> openFlag'[j]]
      /\ Wellformed(handles)' /\ Wellformed(streams)'
  BY <1>1, <1>2 DEF Wellformed
<1>6. stream' = [j \in Infos |-> [path |-> stream'[j].path, read |-> stream'[j].read]]
  <2>1. \A j \in Infos : stream'[j] = [path |-> stream'[j].path, read |-> stream'[j].read]
    BY <1>2, <1>3, <1>4
  <2>2. stream' = [j \in Infos |-> stream'[j]]
    BY <1>1, <1>2
  <2> QED BY <2>1, <2>2
<1>7. /\ nextFd' \in Nat \ {0} /\ nextFd < nextFd' /\ \A n \in Nat : n < nextFd => n < nextFd'
  BY <1>1, <1>2
<1>8. \A fd \in DOMAIN handles' : fd \in Nat /\ fd < nextFd' /\ handles'[fd].file = fd
  BY <1>2, <1>3, <1>4, <1>7
<1>9. \A j \in Infos : descriptor'[j] \in Nat /\ descriptor'[j] < nextFd'
  BY <1>2, <1>4, <1>7
<1>10. \A j, k \in Infos : descriptor'[j] = descriptor'[k] /\ descriptor'[j] \in DOMAIN handles' => j = k
  <2>1. \A j \in Infos \ {i} : descriptor'[j] # nextFd
    BY <1>2, <1>4
  <2> QED BY <1>2, <1>4, <2>1
<1>11. Descriptors'
  BY <1>5, <1>6, <1>7, <1>8, <1>9, <1>10 DEF Descriptors
<1>12. ASSUME NEW j \in Infos, stream'[j] # Nand!Closed PROVE Reads(j)'
  <2>1. CASE j = i
    BY <1>3, <1>4, <2>1 DEF Reads, path
  <2>2. CASE j # i
    <3>1. Reads(j)
      BY <1>4, <1>12, <2>2 DEF NandInv
    <3>2. descriptor[j] \in DOMAIN handles /\ handles[descriptor[j]].file = descriptor[j] /\ descriptor[j] # nextFd
      BY <1>2, <3>1 DEF Reads
    <3> QED BY <1>4, <2>2, <3>1, <3>2 DEF Reads
  <2> QED BY <2>1, <2>2
<1>13. Nand!ClosedInfoReachesNothing'
  <2>1. \A j \in Infos \ {i} : descriptor[j] # nextFd
    BY <1>2
  <2> QED BY <1>4, <2>1 DEF NandInv, Nand!ClosedInfoReachesNothing
<1> QED BY <1>11, <1>12, <1>13 DEF NandInv

\* One that fails after fopen leaves a stream that no descriptor has.
LEMMA LeakKeepsFiles ==
  ASSUME NandInv, Nand!TakeStream, UNCHANGED <<handles, descriptor, openFlag, stream>>
  PROVE  NandInv'
<1>1. /\ streams' = [n \in DOMAIN streams \cup {nextFd} |-> IF n = nextFd THEN 0 ELSE streams[n]]
      /\ nextFd' = nextFd + 1
  BY DEF Nand!TakeStream
<1>2. /\ nextFd \in Nat \ {0} /\ nextFd \notin DOMAIN handles
      /\ \A fd \in DOMAIN handles : fd \in Nat /\ fd < nextFd /\ handles[fd].file = fd
      /\ \A i \in Infos : descriptor[i] \in Nat /\ descriptor[i] < nextFd
  BY DEF NandInv, Descriptors
<1>3. /\ nextFd' \in Nat \ {0} /\ nextFd' \notin DOMAIN handles
      /\ \A n \in Nat : n < nextFd => n < nextFd'
  BY <1>1, <1>2
<1>4. /\ Wellformed(streams)' /\ DOMAIN streams' = DOMAIN streams \cup {nextFd}
      /\ \A n \in DOMAIN streams \ {nextFd} : streams'[n] = streams[n]
  BY <1>1 DEF Wellformed
<1>5. Descriptors'
  BY <1>2, <1>3, <1>4 DEF NandInv, Descriptors, Wellformed
<1>6. ASSUME NEW i \in Infos, stream'[i] # Nand!Closed PROVE Reads(i)'
  <2>1. Reads(i)
    BY <1>6 DEF NandInv
  <2>2. handles[descriptor[i]].file # nextFd
    BY <1>2, <2>1 DEF Reads
  <2> QED BY <1>4, <2>1, <2>2 DEF Reads
<1> QED BY <1>5, <1>6 DEF NandInv, Nand!ClosedInfoReachesNothing

LEMMA OpenKeepsFiles ==
  ASSUME NandInv, NEW i \in Infos, NEW p \in GuestPaths, NEW mode \in 1 .. 3, Nand!OpenSync(i, p, mode)
  PROVE  NandInv'
BY PutKeepsFiles, LeakKeepsFiles DEF Nand!OpenSync

\* A read moves its own stream and no other.
LEMMA ReadKeepsFiles ==
  ASSUME NandInv, NEW i \in Infos, NEW n \in 1 .. Size, Nand!ReadSync(i, n)
  PROVE  NandInv'
<1> DEFINE file == handles[descriptor[i]].file
           got == Nand!BytesRead(handles[descriptor[i]].path, streams[file], n)
<1>1. UNCHANGED <<descriptor, openFlag, handles, nextFd>> /\ descriptor[i] \in DOMAIN handles
  BY DEF Nand!ReadSync
<1>2. CASE file \notin DOMAIN streams
  <2>1. UNCHANGED <<streams, stream>>
    BY <1>2 DEF Nand!ReadSync
  <2> QED BY <1>1, <2>1 DEF NandInv, Descriptors, Wellformed, Reads, Nand!ClosedInfoReachesNothing
<1>3. CASE file \in DOMAIN streams
  <2>1. /\ streams' = [streams EXCEPT ![file] = @ + got]
        /\ stream' = IF stream[i] = Nand!Closed THEN stream ELSE [stream EXCEPT ![i].read = @ + got]
    BY <1>3 DEF Nand!ReadSync
  <2>2. /\ file = descriptor[i] /\ \A j \in Infos \ {i} : descriptor[j] # descriptor[i]
        /\ Wellformed(streams) /\ stream = [j \in Infos |-> [path |-> stream[j].path, read |-> stream[j].read]]
    BY <1>1 DEF NandInv, Descriptors
  <2> HIDE DEF got, file
  <2>3. /\ DOMAIN streams' = DOMAIN streams /\ streams'[file] = streams[file] + got
        /\ \A k \in DOMAIN streams \ {file} : streams'[k] = streams[k]
        /\ Wellformed(streams)'
    BY <1>3, <2>1, <2>2 DEF Wellformed
  <2>4. /\ stream' = [j \in Infos |-> stream'[j]] /\ \A j \in Infos \ {i} : stream'[j] = stream[j]
        /\ stream[i] = Nand!Closed => stream'[i] = stream[i]
        /\ stream[i] # Nand!Closed => stream'[i] = [path |-> stream[i].path, read |-> stream[i].read + got]
    <3>1. stream[i] = [path |-> stream[i].path, read |-> stream[i].read]
      BY <2>2
    <3>2. stream' = [j \in Infos |-> stream'[j]] /\ (\A j \in Infos \ {i} : stream'[j] = stream[j])
      BY <2>1, <2>2
    <3>3. stream[i] = Nand!Closed => stream'[i] = stream[i]
      BY <2>1
    <3>4. stream[i] # Nand!Closed => stream'[i] = [path |-> stream[i].path, read |-> stream[i].read + got]
      <4>1. stream[i] # Nand!Closed => stream' = [stream EXCEPT ![i].read = @ + got]
        BY <2>1
      <4>2. stream[i] # Nand!Closed => stream'[i] = [stream[i] EXCEPT !.read = @ + got]
        BY <2>2, <4>1
      <4>3. [stream[i] EXCEPT !.read = @ + got] = [path |-> stream[i].path, read |-> stream[i].read + got]
        BY <3>1
      <4> QED BY <4>2, <4>3
    <3> QED BY <3>2, <3>3, <3>4
  <2>5. \A j \in Infos : stream[j] = [path |-> stream[j].path, read |-> stream[j].read]
    BY <2>2
  <2>6. stream' = [j \in Infos |-> [path |-> stream'[j].path, read |-> stream'[j].read]]
    <3>1. \A j \in Infos : stream'[j] = [path |-> stream'[j].path, read |-> stream'[j].read]
      BY <2>4, <2>5
    <3> QED BY <2>4, <3>1
  <2>7. Descriptors'
    BY <1>1, <2>3, <2>6 DEF NandInv, Descriptors, Wellformed
  <2>8. ASSUME NEW j \in Infos, stream'[j] # Nand!Closed PROVE Reads(j)'
    <3>1. CASE j = i
      <4>1. stream[i] # Nand!Closed /\ Reads(i)
        BY <2>4, <2>8, <3>1 DEF NandInv
      <4>2. stream'[i].path = stream[i].path /\ stream'[i].read = stream[i].read + got
        BY <2>4, <4>1
      <4> QED BY <1>1, <1>3, <2>3, <3>1, <4>1, <4>2 DEF Reads, file
    <3>2. CASE j # i
      <4>1. Reads(j)
        BY <2>4, <2>8, <3>2 DEF NandInv
      <4>2. handles[descriptor[j]].file = descriptor[j] /\ handles[descriptor[j]].file # file
        BY <2>2, <3>2, <4>1 DEF Reads, NandInv, Descriptors
      <4> QED BY <1>1, <2>3, <2>4, <3>2, <4>1, <4>2 DEF Reads
    <3> QED BY <3>1, <3>2
  <2> QED BY <1>1, <2>7, <2>8 DEF NandInv, Nand!ClosedInfoReachesNothing
<1> QED BY <1>2, <1>3

\* A close, whole or cut short by a failure of fclose, is of one stream and one descriptor.
LEMMA CloseKeepsFiles ==
  ASSUME NandInv, NEW i \in Infos, Nand!CloseSync(i)
  PROVE  NandInv'
<1> DEFINE fd == descriptor[i]
<1>1. UNCHANGED <<descriptor, nextFd>>
  BY DEF Nand!CloseSync
<1>2. /\ \/ UNCHANGED <<openFlag, stream, handles>> /\ fd \in DOMAIN handles
         \/ /\ openFlag' = [openFlag EXCEPT ![i] = 0] /\ stream' = [stream EXCEPT ![i] = Nand!Closed]
            /\ handles' = handles \/ handles' = [k \in DOMAIN handles \ {fd} |-> handles[k]]
            /\ fd \notin DOMAIN handles'
      /\ \/ streams' = streams
         \/ fd \in DOMAIN handles /\ streams' = [k \in DOMAIN streams \ {handles[fd].file} |-> streams[k]]
  <2>1. CASE fd \notin DOMAIN handles
    BY <2>1 DEF Nand!CloseSync, Nand!MarkClosed
  <2>2. CASE fd \in DOMAIN handles /\ handles[fd].file \notin DOMAIN streams
    BY <2>2 DEF Nand!CloseSync
  <2>3. CASE fd \in DOMAIN handles /\ handles[fd].file \in DOMAIN streams
    <3>1. /\ streams' = [k \in DOMAIN streams \ {handles[fd].file} |-> streams[k]]
          /\ \/ handles' = [k \in DOMAIN handles \ {fd} |-> handles[k]] /\ Nand!MarkClosed(i)
             \/ UNCHANGED <<handles, openFlag, stream>>
      BY <2>3 DEF Nand!CloseSync, Nand!Without
    <3> QED BY <2>3, <3>1 DEF Nand!MarkClosed
  <2> QED BY <2>1, <2>2, <2>3
<1>3. /\ descriptor = [j \in Infos |-> descriptor[j]] /\ openFlag = [j \in Infos |-> openFlag[j]]
      /\ stream = [j \in Infos |-> [path |-> stream[j].path, read |-> stream[j].read]]
      /\ Wellformed(handles) /\ Wellformed(streams)
      /\ \A k \in DOMAIN handles : handles[k].file = k
      /\ \A j \in Infos \ {i} : descriptor[j] = fd => fd \notin DOMAIN handles
  BY DEF NandInv, Descriptors
<1>4. /\ Wellformed(handles)' /\ DOMAIN handles' \subseteq DOMAIN handles
      /\ \A k \in DOMAIN handles' : handles'[k] = handles[k]
      /\ \A k \in DOMAIN handles \ {fd} : k \in DOMAIN handles'
  BY <1>2, <1>3 DEF Wellformed
<1>5. /\ Wellformed(streams)' /\ DOMAIN streams' \subseteq DOMAIN streams
      /\ \A k \in DOMAIN streams' : streams'[k] = streams[k]
  BY <1>2, <1>3 DEF Wellformed
<1>6. /\ openFlag' = [j \in Infos |-> openFlag'[j]]
      /\ \A j \in Infos \ {i} : openFlag'[j] = openFlag[j] /\ stream'[j] = stream[j]
      /\ stream' = [j \in Infos |-> [path |-> stream'[j].path, read |-> stream'[j].read]]
  <2>1. CASE UNCHANGED <<openFlag, stream, handles>>
    BY <1>3, <2>1
  <2>2. CASE openFlag' = [openFlag EXCEPT ![i] = 0] /\ stream' = [stream EXCEPT ![i] = Nand!Closed]
    <3>1. Nand!Closed = [path |-> Nand!Closed.path, read |-> Nand!Closed.read]
      BY DEF Nand!Closed
    <3>2. stream' = [j \in Infos |-> stream'[j]] /\ stream'[i] = Nand!Closed /\ \A j \in Infos \ {i} : stream'[j] = stream[j]
      BY <1>3, <2>2
    <3>3. \A j \in Infos : stream'[j] = [path |-> stream'[j].path, read |-> stream'[j].read]
      BY <1>3, <3>1, <3>2
    <3> QED BY <1>3, <2>2, <3>2, <3>3
  <2> QED BY <1>2, <2>1, <2>2
<1>7. Descriptors'
  BY <1>1, <1>4, <1>5, <1>6 DEF NandInv, Descriptors
<1>8. ASSUME NEW j \in Infos, stream'[j] # Nand!Closed PROVE Reads(j)'
  <2>1. CASE j = i
    <3>1. UNCHANGED <<openFlag, stream, handles>>
      BY <1>2, <1>3, <1>8, <2>1
    <3>2. Reads(i)
      BY <1>8, <2>1, <3>1 DEF NandInv
    <3> QED BY <1>1, <1>5, <2>1, <3>1, <3>2 DEF Reads
  <2>2. CASE j # i
    <3>1. Reads(j)
      BY <1>6, <1>8, <2>2 DEF NandInv
    <3>2. descriptor[j] \in DOMAIN handles'
      BY <1>3, <1>4, <2>2, <3>1 DEF Reads
    <3> QED BY <1>1, <1>4, <1>5, <1>6, <2>2, <3>1, <3>2 DEF Reads
  <2> QED BY <2>1, <2>2
<1>9. Nand!ClosedInfoReachesNothing'
  <2>1. \A j \in Infos \ {i} : openFlag'[j] = 0 => descriptor'[j] \notin DOMAIN handles'
    BY <1>1, <1>4, <1>6 DEF NandInv, Nand!ClosedInfoReachesNothing
  <2>2. openFlag'[i] = 0 => descriptor'[i] \notin DOMAIN handles'
    BY <1>1, <1>2 DEF NandInv, Nand!ClosedInfoReachesNothing
  <2> QED BY <2>1, <2>2 DEF Nand!ClosedInfoReachesNothing
<1> QED BY <1>7, <1>8, <1>9 DEF NandInv

LEMMA NandStep == NandInv /\ [Nand!Next]_(Nand!vars) => NandInv'
<1> SUFFICES ASSUME NandInv, [Nand!Next]_(Nand!vars) PROVE NandInv'
  OBVIOUS
<1>1. CASE UNCHANGED Nand!vars
  BY <1>1 DEF Nand!vars, NandInv, Descriptors, Wellformed, Reads, Nand!ClosedInfoReachesNothing
<1> QED BY <1>1, OpenKeepsFiles, ReadKeepsFiles, CloseKeepsFiles DEF Nand!Next

\* What opens, reads and closes keep, for any number of infos, files and opens.
THEOREM NandInvariant == Nand!Spec => []NandInv
<1>1. Nand!Init => NandInv
  BY NandInitially
<1>2. NandInv /\ [Nand!Next]_(Nand!vars) => NandInv'
  BY NandStep
<1> QED BY <1>1, <1>2, PTL DEF Nand!Spec

\* An info the guest has closed reaches no stream: its descriptor is never given again, and
\* a close that reports success has taken it out of the table (switch_nand_open_runtime.cpp).
THEOREM ClosedStaysClosed == Nand!Spec => []ClosedInfoReachesNothing
<1>1. NandInv => ClosedInfoReachesNothing
  BY DEF NandInv, ClosedInfoReachesNothing
<1> QED BY <1>1, NandInvariant, PTL

-----------------------------------------------------------------------------
(* What a path means.  After n parts of the path s, the stack of parts has *)
(* the names that stand, at the places pos; of the name at pos[j] on,      *)
(* names are ahead of parents by as many as are on the stack from j on.    *)

Names(s, k, m) == {j \in k .. m : Nand!IsName(s[j])}
Parents(s, k, m) == {j \in k .. m : s[j] = ".."}

\* The name at k stands after the first n parts.
StandsAfter(s, n, k) ==
  /\ Nand!IsName(s[k])
  /\ \A m \in k .. n : Cardinality(Parents(s, k, m)) < Cardinality(Names(s, k, m))

Rising(pos) == \A i, j \in 1 .. Len(pos) : i < j => pos[i] < pos[j]

\* The parts on the stack are those at pos.
Stacked(s, n, parts, pos) ==
  /\ pos \in Seq(1 .. n) /\ Rising(pos)
  /\ parts \in Seq(STRING) /\ Len(parts) = Len(pos)
  /\ \A j \in 1 .. Len(pos) : parts[j] = s[pos[j]]
  /\ \A k \in 1 .. n : StandsAfter(s, n, k) <=> \E j \in 1 .. Len(pos) : pos[j] = k
  /\ \A j \in 1 .. Len(pos) :
       Cardinality(Names(s, pos[j], n)) = Cardinality(Parents(s, pos[j], n)) + (Len(pos) - j + 1)

LEMMA Counted ==
  ASSUME NEW s, NEW k \in Nat, NEW m \in Nat, k <= m + 1
  PROVE  /\ Cardinality(Names(s, k, m)) \in Nat /\ Cardinality(Parents(s, k, m)) \in Nat
         /\ Cardinality(Names(s, k, m + 1)) =
              IF Nand!IsName(s[m + 1]) THEN Cardinality(Names(s, k, m)) + 1 ELSE Cardinality(Names(s, k, m))
         /\ Cardinality(Parents(s, k, m + 1)) =
              IF s[m + 1] = ".." THEN Cardinality(Parents(s, k, m)) + 1 ELSE Cardinality(Parents(s, k, m))
<1> DEFINE A == Names(s, k, m)
           B == Parents(s, k, m)
<1>1. IsFiniteSet(k .. m)
  BY FS_Interval
<1>2. A \subseteq k .. m /\ B \subseteq k .. m
  BY DEF Names, Parents
<1>3. IsFiniteSet(A) /\ IsFiniteSet(B)
  BY <1>1, <1>2, FS_Subset
<1>4. Cardinality(A) \in Nat /\ Cardinality(B) \in Nat
  BY <1>3, FS_CardinalityType
<1>5. \A j : j \in k .. m + 1 <=> j \in k .. m \/ j = m + 1
  OBVIOUS
<1>6. m + 1 \notin A /\ m + 1 \notin B
  BY <1>2
<1>7. Names(s, k, m + 1) = IF Nand!IsName(s[m + 1]) THEN A \cup {m + 1} ELSE A
  BY <1>5 DEF Names
<1>8. Parents(s, k, m + 1) = IF s[m + 1] = ".." THEN B \cup {m + 1} ELSE B
  BY <1>5 DEF Parents
<1> HIDE DEF A, B
<1>9. Cardinality(A \cup {m + 1}) = Cardinality(A) + 1 /\ Cardinality(B \cup {m + 1}) = Cardinality(B) + 1
  BY <1>3, <1>6, FS_AddElement
<1> QED BY <1>4, <1>7, <1>8, <1>9 DEF A, B

\* A part that is read decides for each name before it whether it still stands.
LEMMA OneMorePart ==
  ASSUME NEW s, NEW n \in Nat, NEW k \in 1 .. n
  PROVE  StandsAfter(s, n + 1, k) <=>
           /\ StandsAfter(s, n, k)
           /\ Cardinality(Parents(s, k, n + 1)) < Cardinality(Names(s, k, n + 1))
<1>1. \A m : m \in k .. n + 1 <=> m \in k .. n \/ m = n + 1
  OBVIOUS
<1> QED BY <1>1 DEF StandsAfter

\* Of a name on the stack, n parts leave more names than parents.
LEMMA StackedStands ==
  ASSUME NEW s, NEW n \in Nat, NEW parts, NEW pos, Stacked(s, n, parts, pos)
  PROVE  /\ Len(pos) \in Nat /\ \A j \in 1 .. Len(pos) : pos[j] \in 1 .. n /\ Nand!IsName(s[pos[j]])
         /\ \A j \in 1 .. Len(pos) : StandsAfter(s, n, pos[j])
<1>1. Len(pos) \in Nat /\ \A j \in 1 .. Len(pos) : pos[j] \in 1 .. n
  BY ElementOfSeq, LenProperties DEF Stacked
<1>2. \A j \in 1 .. Len(pos) : StandsAfter(s, n, pos[j])
  BY <1>1 DEF Stacked
<1> QED BY <1>1, <1>2 DEF StandsAfter

\* A part that is empty or a dot leaves the stack as it is.
LEMMA StackKept ==
  ASSUME NEW s, NEW n \in Nat, NEW parts, NEW pos, Stacked(s, n, parts, pos),
         ~Nand!IsName(s[n + 1]), s[n + 1] # ".."
  PROVE  Stacked(s, n + 1, parts, pos)
<1>1. \A k \in 1 .. n + 1 : /\ Cardinality(Names(s, k, n + 1)) = Cardinality(Names(s, k, n))
                            /\ Cardinality(Parents(s, k, n + 1)) = Cardinality(Parents(s, k, n))
  <2> SUFFICES ASSUME NEW k \in 1 .. n + 1
               PROVE  /\ Cardinality(Names(s, k, n + 1)) = Cardinality(Names(s, k, n))
                      /\ Cardinality(Parents(s, k, n + 1)) = Cardinality(Parents(s, k, n))
    OBVIOUS
  <2>1. k \in Nat /\ k <= n + 1
    OBVIOUS
  <2> QED BY <2>1, Counted
<1>2. /\ Len(pos) \in Nat /\ \A j \in 1 .. Len(pos) : pos[j] \in 1 .. n /\ Nand!IsName(s[pos[j]])
      /\ \A j \in 1 .. Len(pos) : StandsAfter(s, n, pos[j])
  BY StackedStands
<1>3. pos \in Seq(1 .. n + 1)
  BY <1>2, SeqDef DEF Stacked
<1>4. \A k \in 1 .. n + 1 : StandsAfter(s, n + 1, k) <=> \E j \in 1 .. Len(pos) : pos[j] = k
  <2> SUFFICES ASSUME NEW k \in 1 .. n + 1
               PROVE  StandsAfter(s, n + 1, k) <=> \E j \in 1 .. Len(pos) : pos[j] = k
    OBVIOUS
  <2>1. CASE k = n + 1
    <3>1. ~StandsAfter(s, n + 1, k)
      BY <2>1 DEF StandsAfter
    <3>2. \A j \in 1 .. Len(pos) : pos[j] # k
      BY <1>2, <2>1
    <3> QED BY <3>1, <3>2
  <2>2. CASE k \in 1 .. n
    <3>1. StandsAfter(s, n, k) => Cardinality(Parents(s, k, n)) < Cardinality(Names(s, k, n))
      BY <2>2 DEF StandsAfter
    <3>2. StandsAfter(s, n + 1, k) <=> StandsAfter(s, n, k)
      BY <1>1, <2>2, <3>1, OneMorePart
    <3> QED BY <2>2, <3>2 DEF Stacked
  <2> QED BY <2>1, <2>2
<1>5. \A j \in 1 .. Len(pos) :
        Cardinality(Names(s, pos[j], n + 1)) = Cardinality(Parents(s, pos[j], n + 1)) + (Len(pos) - j + 1)
  BY <1>1, <1>2 DEF Stacked
<1> QED BY <1>3, <1>4, <1>5 DEF Stacked

\* A name goes on top.
LEMMA StackPushed ==
  ASSUME NEW s \in Seq(STRING), NEW n \in Nat, n + 1 <= Len(s), NEW parts, NEW pos, Stacked(s, n, parts, pos),
         Nand!IsName(s[n + 1])
  PROVE  Stacked(s, n + 1, Append(parts, s[n + 1]), Append(pos, n + 1))
<1> DEFINE top == Append(pos, n + 1)
           L == Len(pos)
           name == s[n + 1]
<1>0. s[n + 1] # ".." /\ name \in STRING
  <2>1. n + 1 \in 1 .. Len(s)
    BY LenProperties
  <2>2. name \in STRING
    BY <2>1, ElementOfSeq
  <2> QED BY <2>2 DEF Nand!IsName
<1>1. \A k \in 1 .. n + 1 : /\ Cardinality(Names(s, k, n + 1)) = Cardinality(Names(s, k, n)) + 1
                            /\ Cardinality(Parents(s, k, n + 1)) = Cardinality(Parents(s, k, n))
                            /\ Cardinality(Names(s, k, n)) \in Nat /\ Cardinality(Parents(s, k, n)) \in Nat
  <2> SUFFICES ASSUME NEW k \in 1 .. n + 1
               PROVE  /\ Cardinality(Names(s, k, n + 1)) = Cardinality(Names(s, k, n)) + 1
                      /\ Cardinality(Parents(s, k, n + 1)) = Cardinality(Parents(s, k, n))
                      /\ Cardinality(Names(s, k, n)) \in Nat /\ Cardinality(Parents(s, k, n)) \in Nat
    OBVIOUS
  <2>1. k \in Nat /\ k <= n + 1
    OBVIOUS
  <2> QED BY <1>0, <2>1, Counted
<1>2. /\ L \in Nat /\ \A j \in 1 .. L : pos[j] \in 1 .. n /\ Nand!IsName(s[pos[j]])
      /\ \A j \in 1 .. L : StandsAfter(s, n, pos[j])
  BY StackedStands
<1>3. pos \in Seq(1 .. n + 1) /\ parts \in Seq(STRING) /\ Len(parts) = L
  BY <1>2, SeqDef DEF Stacked
<1>4. /\ top \in Seq(1 .. n + 1) /\ Len(top) = L + 1 /\ top[L + 1] = n + 1
      /\ \A j \in 1 .. L : top[j] = pos[j]
  BY <1>3, AppendProperties
<1>5. /\ Append(parts, name) \in Seq(STRING) /\ Len(Append(parts, name)) = L + 1
      /\ Append(parts, name)[L + 1] = name
      /\ \A j \in 1 .. L : Append(parts, name)[j] = parts[j]
  BY <1>0, <1>3, AppendProperties
<1>6. Rising(top)
  <2> SUFFICES ASSUME NEW i \in 1 .. L + 1, NEW j \in 1 .. L + 1, i < j PROVE top[i] < top[j]
    BY <1>4 DEF Rising
  <2>1. i \in 1 .. L /\ (j \in 1 .. L \/ j = L + 1)
    <3>1. L \in Nat
      BY <1>2
    <3> HIDE DEF L
    <3>2. i \in 1 .. L + 1 /\ j \in 1 .. L + 1 /\ i < j
      OBVIOUS
    <3> QED BY ONLY <3>1, <3>2
  <2>2. \A a, b \in 1 .. L : a < b => pos[a] < pos[b]
    BY DEF Stacked, Rising
  <2> HIDE DEF top
  <2>3. CASE j = L + 1
    <3>1. pos[i] \in 1 .. n
      BY <1>2, <2>1
    <3> QED BY <1>4, <2>1, <2>3, <3>1
  <2> QED BY <1>4, <2>1, <2>2, <2>3
<1>7. \A j \in 1 .. L + 1 : Append(parts, name)[j] = s[top[j]]
  BY <1>2, <1>4, <1>5 DEF Stacked
<1>8. \A k : k \in 1 .. n + 1 <=> k \in 1 .. n \/ k = n + 1
  OBVIOUS
<1>9. \A m : Parents(s, n + 1, n) = {} /\ Names(s, n + 1, n) = {}
  BY DEF Parents, Names
<1>10. Cardinality(Names(s, n + 1, n)) = 0 /\ Cardinality(Parents(s, n + 1, n)) = 0
  BY <1>9, FS_EmptySet
<1>11. Cardinality(Names(s, n + 1, n + 1)) = 1 /\ Cardinality(Parents(s, n + 1, n + 1)) = 0
  BY <1>1, <1>10
<1>12. StandsAfter(s, n + 1, n + 1)
  <2>1. \A m \in n + 1 .. n + 1 : m = n + 1
    OBVIOUS
  <2> QED BY <1>11, <2>1 DEF StandsAfter
<1>13. \A k \in 1 .. n + 1 : StandsAfter(s, n + 1, k) <=> \E j \in 1 .. L + 1 : top[j] = k
  <2> SUFFICES ASSUME NEW k \in 1 .. n + 1
               PROVE  StandsAfter(s, n + 1, k) <=> \E j \in 1 .. L + 1 : top[j] = k
    OBVIOUS
  <2>1. CASE k = n + 1
    BY <1>2, <1>4, <1>12, <2>1
  <2>2. CASE k \in 1 .. n
    <3>1. StandsAfter(s, n, k) => Cardinality(Parents(s, k, n)) < Cardinality(Names(s, k, n))
      BY <2>2 DEF StandsAfter
    <3>2. StandsAfter(s, n + 1, k) <=> StandsAfter(s, n, k)
      BY <1>1, <2>2, <3>1, OneMorePart
    <3>3. StandsAfter(s, n, k) <=> \E j \in 1 .. L : pos[j] = k
      BY <2>2 DEF Stacked
    <3>4. (\E j \in 1 .. L + 1 : top[j] = k) <=> \E j \in 1 .. L : pos[j] = k
      BY <1>2, <1>4, <2>2
    <3> QED BY <3>2, <3>3, <3>4
  <2> QED BY <1>8, <2>1, <2>2
<1>14. \A j \in 1 .. L + 1 :
         Cardinality(Names(s, top[j], n + 1)) = Cardinality(Parents(s, top[j], n + 1)) + (L + 1 - j + 1)
  <2> SUFFICES ASSUME NEW j \in 1 .. L + 1
               PROVE  Cardinality(Names(s, top[j], n + 1)) = Cardinality(Parents(s, top[j], n + 1)) + (L + 1 - j + 1)
    OBVIOUS
  <2>1. CASE j = L + 1
    BY <1>2, <1>4, <1>11, <2>1
  <2>2. CASE j \in 1 .. L
    <3>1. Cardinality(Names(s, pos[j], n)) = Cardinality(Parents(s, pos[j], n)) + (L - j + 1)
      BY <2>2 DEF Stacked
    <3>2. pos[j] \in 1 .. n + 1 /\ top[j] = pos[j]
      BY <1>2, <1>4, <2>2
    <3> DEFINE N == Cardinality(Names(s, pos[j], n))
               P == Cardinality(Parents(s, pos[j], n))
    <3>3. /\ Cardinality(Names(s, pos[j], n + 1)) = N + 1 /\ Cardinality(Parents(s, pos[j], n + 1)) = P
          /\ N \in Nat /\ P \in Nat /\ N = P + (L - j + 1) /\ L \in Nat /\ j \in Nat
      BY <1>1, <1>2, <2>2, <3>1, <3>2
    <3> HIDE DEF N, P, L
    <3>4. N + 1 = P + (L + 1 - j + 1)
      BY ONLY <3>3
    <3> QED BY <3>2, <3>3, <3>4
  <2> QED BY <1>2, <2>1, <2>2
<1> DEFINE pushed == Append(parts, name)
<1> HIDE DEF top, pushed
<1>15. Stacked(s, n + 1, pushed, top)
  <2>1. Len(pushed) = L + 1 /\ pushed \in Seq(STRING) /\ \A j \in 1 .. L + 1 : pushed[j] = s[top[j]]
    BY <1>5, <1>7 DEF pushed
  <2> QED BY <1>4, <1>6, <1>13, <1>14, <2>1 DEF Stacked
<1> QED BY <1>15 DEF top, pushed

\* A parent takes the top off.
LEMMA StackPopped ==
  ASSUME NEW s, NEW n \in Nat, NEW parts, NEW pos, Stacked(s, n, parts, pos), s[n + 1] = ".."
  PROVE  /\ parts = <<>> => Stacked(s, n + 1, parts, pos)
         /\ parts # <<>> => Stacked(s, n + 1, Front(parts), Front(pos))
<1> DEFINE L == Len(pos)
<1>0. ~Nand!IsName(s[n + 1])
  BY DEF Nand!IsName
<1>1. \A k \in 1 .. n + 1 : /\ Cardinality(Names(s, k, n + 1)) = Cardinality(Names(s, k, n))
                            /\ Cardinality(Parents(s, k, n + 1)) = Cardinality(Parents(s, k, n)) + 1
                            /\ Cardinality(Names(s, k, n)) \in Nat /\ Cardinality(Parents(s, k, n)) \in Nat
  <2> SUFFICES ASSUME NEW k \in 1 .. n + 1
               PROVE  /\ Cardinality(Names(s, k, n + 1)) = Cardinality(Names(s, k, n))
                      /\ Cardinality(Parents(s, k, n + 1)) = Cardinality(Parents(s, k, n)) + 1
                      /\ Cardinality(Names(s, k, n)) \in Nat /\ Cardinality(Parents(s, k, n)) \in Nat
    OBVIOUS
  <2>1. k \in Nat /\ k <= n + 1
    OBVIOUS
  <2> QED BY <1>0, <2>1, Counted
<1>2. /\ L \in Nat /\ \A j \in 1 .. L : pos[j] \in 1 .. n /\ Nand!IsName(s[pos[j]])
      /\ \A j \in 1 .. L : StandsAfter(s, n, pos[j])
  BY StackedStands
<1>3. pos \in Seq(1 .. n + 1) /\ parts \in Seq(STRING) /\ Len(parts) = L
  BY <1>2, SeqDef DEF Stacked
<1>4. ~StandsAfter(s, n + 1, n + 1)
  BY <1>0 DEF StandsAfter
<1>5. \A k \in 1 .. n : StandsAfter(s, n + 1, k) =>
        \E j \in 1 .. L : pos[j] = k /\ j < L
  <2> SUFFICES ASSUME NEW k \in 1 .. n, StandsAfter(s, n + 1, k)
               PROVE  \E j \in 1 .. L : pos[j] = k /\ j < L
    OBVIOUS
  <2>1. StandsAfter(s, n, k) /\ Cardinality(Parents(s, k, n + 1)) < Cardinality(Names(s, k, n + 1))
    BY OneMorePart
  <2>2. PICK j \in 1 .. L : pos[j] = k
    BY <2>1 DEF Stacked
  <2>3. Cardinality(Names(s, k, n)) = Cardinality(Parents(s, k, n)) + (L - j + 1)
    BY <2>2 DEF Stacked
  <2>4. j # L
    BY <1>1, <1>2, <2>1, <2>3
  <2> QED BY <1>2, <2>2, <2>4
<1>6. \A j \in 1 .. L : j < L => StandsAfter(s, n + 1, pos[j])
  <2> SUFFICES ASSUME NEW j \in 1 .. L, j < L PROVE StandsAfter(s, n + 1, pos[j])
    OBVIOUS
  <2>1. Cardinality(Names(s, pos[j], n)) = Cardinality(Parents(s, pos[j], n)) + (L - j + 1)
    BY DEF Stacked
  <2>2. pos[j] \in 1 .. n /\ StandsAfter(s, n, pos[j])
    BY <1>2
  <2>3. Cardinality(Parents(s, pos[j], n + 1)) < Cardinality(Names(s, pos[j], n + 1))
    <3> DEFINE N == Cardinality(Names(s, pos[j], n))
               P == Cardinality(Parents(s, pos[j], n))
    <3>1. pos[j] \in 1 .. n + 1
      BY <2>2
    <3>2. /\ Cardinality(Names(s, pos[j], n + 1)) = N /\ Cardinality(Parents(s, pos[j], n + 1)) = P + 1
          /\ N \in Nat /\ P \in Nat
      BY <1>1, <3>1
    <3>3. N = P + (L - j + 1) /\ L \in Nat /\ j \in Nat /\ j < L
      BY <1>2, <2>1
    <3> HIDE DEF N, P, L
    <3>4. P + 1 < N
      BY ONLY <3>2, <3>3
    <3> QED BY <3>2, <3>4
  <2> QED BY <2>2, <2>3, OneMorePart
<1>7. ASSUME parts = <<>> PROVE Stacked(s, n + 1, parts, pos)
  <2>1. L = 0
    BY <1>3, <1>7
  <2>2. \A k \in 1 .. n + 1 : ~StandsAfter(s, n + 1, k)
    BY <1>4, <1>5, <2>1
  <2> QED BY <1>3, <2>1, <2>2 DEF Stacked, Rising
<1>8. ASSUME parts # <<>> PROVE Stacked(s, n + 1, Front(parts), Front(pos))
  <2> DEFINE under == Front(pos)
             rest == Front(parts)
  <2>1. L > 0 /\ L - 1 \in Nat /\ L \in 1 .. L
    BY <1>2, <1>3, <1>8, EmptySeq
  <2>2. under \in Seq(1 .. n + 1) /\ Len(under) = L - 1 /\ \A j \in 1 .. L - 1 : under[j] = pos[j]
    BY <1>3, <2>1, SubSeqProperties DEF Front
  <2>3. rest \in Seq(STRING) /\ Len(rest) = L - 1 /\ \A j \in 1 .. L - 1 : rest[j] = parts[j]
    BY <1>3, <2>1, SubSeqProperties DEF Front
  <2>4. Rising(under)
    BY <1>2, <2>1, <2>2 DEF Rising, Stacked
  <2>5. \A j \in 1 .. L - 1 : rest[j] = s[under[j]]
    <3>1. \A j \in 1 .. L - 1 : j \in 1 .. L
      BY <1>2
    <3>2. \A j \in 1 .. L : parts[j] = s[pos[j]]
      BY DEF Stacked
    <3> QED BY <2>2, <2>3, <3>1, <3>2
  <2>6. \A k \in 1 .. n + 1 : StandsAfter(s, n + 1, k) <=> \E j \in 1 .. L - 1 : under[j] = k
    <3> SUFFICES ASSUME NEW k \in 1 .. n + 1
                 PROVE  StandsAfter(s, n + 1, k) <=> \E j \in 1 .. L - 1 : under[j] = k
      OBVIOUS
    <3>1. \A j : j \in 1 .. L - 1 <=> j \in 1 .. L /\ j < L
      BY <1>2
    <3>2. ASSUME StandsAfter(s, n + 1, k) PROVE \E j \in 1 .. L - 1 : under[j] = k
      <4>1. k \in 1 .. n
        BY <1>4, <3>2
      <4> QED BY <1>5, <2>2, <3>1, <3>2, <4>1
    <3>3. ASSUME NEW j \in 1 .. L - 1, under[j] = k PROVE StandsAfter(s, n + 1, k)
      BY <1>6, <2>2, <3>1, <3>3
    <3> QED BY <3>2, <3>3
  <2>7. \A j \in 1 .. L - 1 :
          Cardinality(Names(s, under[j], n + 1)) = Cardinality(Parents(s, under[j], n + 1)) + (L - 1 - j + 1)
    <3> SUFFICES ASSUME NEW j \in 1 .. L - 1
                 PROVE  Cardinality(Names(s, under[j], n + 1)) = Cardinality(Parents(s, under[j], n + 1)) + (L - 1 - j + 1)
      OBVIOUS
    <3>1. j \in 1 .. L
      BY <1>2
    <3>2. Cardinality(Names(s, pos[j], n)) = Cardinality(Parents(s, pos[j], n)) + (L - j + 1)
      BY <3>1 DEF Stacked
    <3>3. pos[j] \in 1 .. n + 1 /\ under[j] = pos[j]
      BY <1>2, <2>2, <3>1
    <3> DEFINE N == Cardinality(Names(s, pos[j], n))
               P == Cardinality(Parents(s, pos[j], n))
    <3>4. /\ Cardinality(Names(s, pos[j], n + 1)) = N /\ Cardinality(Parents(s, pos[j], n + 1)) = P + 1
          /\ N \in Nat /\ P \in Nat /\ N = P + (L - j + 1) /\ L \in Nat /\ j \in Nat
      BY <1>1, <1>2, <3>1, <3>2, <3>3
    <3> HIDE DEF N, P, L
    <3>5. N = P + 1 + (L - 1 - j + 1)
      BY ONLY <3>4
    <3> QED BY <3>3, <3>4, <3>5
  <2> HIDE DEF under, rest
  <2>8. Stacked(s, n + 1, rest, under)
    BY <2>2, <2>3, <2>4, <2>5, <2>6, <2>7 DEF Stacked
  <2> QED BY <2>8 DEF under, rest
<1> QED BY <1>7, <1>8

\* One part more leaves a stack of what stands.
LEMMA StackStep ==
  ASSUME NEW s \in Seq(STRING), NEW n \in Nat, n + 1 <= Len(s), NEW parts, NEW pos, Stacked(s, n, parts, pos)
  PROVE  \E pos2 : Stacked(s, n + 1, Nand!Step(parts, s[n + 1]), pos2)
<1>1. CASE s[n + 1] = ".."
  <2>1. CASE parts = <<>>
    BY <1>1, <2>1, StackPopped DEF Nand!Step
  <2>2. CASE parts # <<>>
    <3>1. Nand!Step(parts, s[n + 1]) = Front(parts)
      BY <1>1, <2>2 DEF Nand!Step, Nand!Front, Front
    <3>2. Stacked(s, n + 1, Front(parts), Front(pos))
      BY <1>1, <2>2, StackPopped
    <3> QED BY <3>1, <3>2
  <2> QED BY <2>1, <2>2
<1>2. CASE s[n + 1] # ".." /\ ~Nand!IsName(s[n + 1])
  <2>1. Nand!Step(parts, s[n + 1]) = parts
    BY <1>2 DEF Nand!Step, Nand!IsName
  <2> QED BY <1>2, <2>1, StackKept
<1>3. CASE Nand!IsName(s[n + 1])
  <2>1. Nand!Step(parts, s[n + 1]) = Append(parts, s[n + 1])
    BY <1>3 DEF Nand!Step, Nand!IsName
  <2>2. Stacked(s, n + 1, Append(parts, s[n + 1]), Append(pos, n + 1))
    BY <1>3, StackPushed
  <2> QED BY <2>1, <2>2
<1> QED BY <1>1, <1>2, <1>3

\* The loop over the parts ends: some function is what it leaves after every number of parts.
After(f, s, n) == IF n = 0 THEN <<>> ELSE Nand!Step(f[n - 1], s[n])

LEMMA PartsEnd ==
  ASSUME NEW s \in Seq(STRING)
  PROVE  \E f : f = [n \in 0 .. Len(s) |-> After(f, s, n)]
<1> DEFINE R == 0 .. Len(s)
           Solves(m, f) == \A n \in R : n <= m => f[n] = After(f, s, n)
           Bad == {m \in Nat : ~ \E f : Solves(m, f)}
<1>0. Len(s) \in Nat
  BY LenProperties
<1>1. \A f, g : After(f, s, 0) = After(g, s, 0)
  BY DEF After
<1>2. \A f, g, n : f[n - 1] = g[n - 1] => After(f, s, n) = After(g, s, n)
  BY DEF After
<1>3. Bad = {}
  <2>1. SUFFICES ASSUME Bad # {} PROVE FALSE
    OBVIOUS
  <2>2. PICK m \in Bad : \A k \in Bad : m <= k
    <3> Bad \subseteq Nat
      OBVIOUS
    <3> QED BY <2>1, MinProperties
  <2>3. m # 0
    <3> DEFINE g == [n \in R |-> <<>>]
    <3>1. Solves(0, g)
      BY <1>0 DEF After
    <3> QED BY <3>1
  <2>4. m - 1 \in Nat /\ m - 1 \notin Bad
    <3>1. m \in Nat
      BY <2>2
    <3>2. m - 1 \in Nat /\ ~(m <= m - 1)
      BY ONLY <2>3, <3>1
    <3> HIDE DEF Bad
    <3> QED BY <2>2, <3>2
  <2>5. PICK f : Solves(m - 1, f)
    BY <2>4
  <2> DEFINE h == [n \in R |-> After(f, s, n)]
  <2>6. Solves(m, h)
    <3> SUFFICES ASSUME NEW n \in R, n <= m PROVE h[n] = After(h, s, n)
      OBVIOUS
    <3>1. h[n] = After(f, s, n)
      OBVIOUS
    <3>2. CASE n = 0
      BY <1>1, <3>1, <3>2
    <3>3. CASE n # 0
      <4>1. n - 1 \in R /\ n - 1 <= m - 1
        BY <1>0, <2>4, <3>3
      <4>2. f[n - 1] = After(f, s, n - 1)
        BY <2>5, <4>1
      <4>3. h[n - 1] = f[n - 1]
        BY <4>1, <4>2
      <4> HIDE DEF h
      <4> QED BY <1>2, <3>1, <4>3
    <3> QED BY <3>2, <3>3
  <2> HIDE DEF h
  <2> QED BY <2>2, <2>6
<1>4. PICK f : Solves(Len(s), f)
  BY <1>0, <1>3
<1> DEFINE h == [n \in R |-> After(f, s, n)]
<1>5. \A n \in R : f[n] = h[n]
  BY <1>0, <1>4
<1>6. h = [n \in R |-> After(h, s, n)]
  <2>1. \A n \in R : After(h, s, n) = After(f, s, n)
    <3> SUFFICES ASSUME NEW n \in R PROVE After(h, s, n) = After(f, s, n)
      OBVIOUS
    <3>1. CASE n = 0
      BY <1>1, <3>1
    <3>2. CASE n # 0
      <4>1. n - 1 \in R
        BY <1>0, <3>2
      <4>2. f[n - 1] = h[n - 1]
        BY <1>5, <4>1
      <4> HIDE DEF h
      <4> QED BY <1>2, <4>2
    <3> QED BY <3>1, <3>2
  <2> QED BY <2>1
<1> HIDE DEF h
<1> QED BY <1>6

\* What it leaves after the last part.
LEMMA ResolvedParts ==
  ASSUME NEW s \in Seq(STRING)
  PROVE  \E f : /\ Nand!Resolved(s) = f[Len(s)]
                /\ \A n \in 0 .. Len(s) : f[n] = After(f, s, n)
<1> DEFINE after == CHOOSE f : f = [n \in 0 .. Len(s) |-> After(f, s, n)]
<1>1. after = [n \in 0 .. Len(s) |-> After(after, s, n)]
  BY PartsEnd
<1>2. Nand!Resolved(s) = after[Len(s)]
  BY DEF Nand!Resolved, After
<1> HIDE DEF after
<1>3. \A n \in 0 .. Len(s) : after[n] = After(after, s, n)
  BY <1>1
<1> QED BY <1>2, <1>3

\* After every number of parts, the stack is what stands.
LEMMA ResolvedStacked ==
  ASSUME NEW s \in Seq(STRING)
  PROVE  \E pos : Stacked(s, Len(s), Nand!Resolved(s), pos)
<1>1. PICK f : /\ Nand!Resolved(s) = f[Len(s)]
               /\ \A n \in 0 .. Len(s) : f[n] = After(f, s, n)
  BY ResolvedParts
<1>2. Len(s) \in Nat
  BY LenProperties
<1> DEFINE Bad == {n \in 0 .. Len(s) : ~ \E pos : Stacked(s, n, f[n], pos)}
<1>3. Bad = {}
  <2>1. SUFFICES ASSUME Bad # {} PROVE FALSE
    OBVIOUS
  <2>2. PICK n \in Bad : \A k \in Bad : n <= k
    <3> Bad \subseteq Nat
      BY <1>2
    <3> QED BY <2>1, MinProperties
  <2>3. n # 0
    <3>1. 0 \in 0 .. Len(s)
      BY <1>2
    <3>2. f[0] = <<>>
      BY <1>1, <3>1 DEF After
    <3>3. Stacked(s, 0, <<>>, <<>>)
      <4>1. <<>> \in Seq(1 .. 0) /\ <<>> \in Seq(STRING) /\ Len(<<>>) = 0
        BY EmptySeq
      <4> QED BY <4>1 DEF Stacked, Rising
    <3> QED BY <3>2, <3>3
  <2> DEFINE m == n - 1
  <2>4. m \in Nat /\ m + 1 = n /\ m + 1 <= Len(s) /\ m \in 0 .. Len(s) /\ m \notin Bad
    BY <1>2, <2>2, <2>3
  <2>5. PICK pos : Stacked(s, m, f[m], pos)
    BY <2>4
  <2>6. f[n] = Nand!Step(f[m], s[n])
    BY <1>1, <2>3 DEF After
  <2> HIDE DEF m
  <2>7. \E pos2 : Stacked(s, m + 1, Nand!Step(f[m], s[m + 1]), pos2)
    BY <2>4, <2>5, StackStep
  <2> QED BY <2>4, <2>6, <2>7
<1>4. Len(s) \in 0 .. Len(s)
  BY <1>2
<1> QED BY <1>1, <1>3, <1>4

\* The first i places of a rising sequence are i places.
LEMMA RisingCounted ==
  ASSUME NEW n \in Nat, NEW pos \in Seq(1 .. n), Rising(pos), NEW i \in 0 .. Len(pos)
  PROVE  Cardinality({pos[j] : j \in 1 .. i}) = i
<1> DEFINE T == {pos[j] : j \in 1 .. i}
           b == [j \in 1 .. i |-> pos[j]]
<1>1. Len(pos) \in Nat /\ i \in Nat /\ \A j \in 1 .. Len(pos) : pos[j] \in Nat
  BY ElementOfSeq, LenProperties
<1>2. \A j, k \in 1 .. i : j # k => pos[j] # pos[k]
  <2> SUFFICES ASSUME NEW j \in 1 .. i, NEW k \in 1 .. i, j # k PROVE pos[j] # pos[k]
    OBVIOUS
  <2>1. j \in 1 .. Len(pos) /\ k \in 1 .. Len(pos) /\ (j < k \/ k < j)
    BY <1>1
  <2>2. pos[j] < pos[k] \/ pos[k] < pos[j]
    BY <2>1 DEF Rising
  <2> QED BY <1>1, <2>1, <2>2
<1>3. b \in Bijection(1 .. i, T)
  BY <1>2 DEF Bijection, Injection, Surjection, IsInjective
<1>4. ExistsBijection(1 .. i, T)
  BY <1>3 DEF ExistsBijection
<1> QED BY <1>1, <1>4, FS_CountingElements

\* Sets are counted alike in the module of the files.
LEMMA SameCardinality == \A S : Nand!Cardinality(S) = Cardinality(S)
BY DEF Nand!Cardinality, Cardinality

\* A name stands after all parts when no parents that follow remove it.
LEMMA StandsAtEnd ==
  ASSUME NEW s, NEW k
  PROVE  Nand!Stands(s, k) <=> StandsAfter(s, Len(s), k)
<1> DEFINE P(m) == {j \in k .. m : s[j] = ".."}
           N(m) == {j \in k .. m : Nand!IsName(s[j])}
<1>1. \A m : Nand!Cardinality(P(m)) = Cardinality(P(m)) /\ Nand!Cardinality(N(m)) = Cardinality(N(m))
  BY SameCardinality
<1>2. Nand!Stands(s, k) <=> Nand!IsName(s[k]) /\ \A m \in k .. Len(s) : Nand!Cardinality(P(m)) < Nand!Cardinality(N(m))
  BY DEF Nand!Stands
<1>3. StandsAfter(s, Len(s), k) <=> Nand!IsName(s[k]) /\ \A m \in k .. Len(s) : Cardinality(P(m)) < Cardinality(N(m))
  BY DEF StandsAfter, Names, Parents
<1> HIDE DEF P, N
<1> QED BY <1>1, <1>2, <1>3

\* What Normalize computes with its stack is what a path means, whatever its parts: the
\* names that no parent behind them removes (switch_nand_open_runtime.cpp).
THEOREM PathResolved ==
  ASSUME NEW s \in Seq(STRING)
  PROVE  Nand!Resolved(s) =
           LET standing == {k \in DOMAIN s : Nand!Stands(s, k)}
           IN  [n \in 1 .. Nand!Cardinality(standing) |->
                  s[CHOOSE k \in standing : Nand!Cardinality({j \in standing : j <= k}) = n]]
<1> DEFINE standing == {k \in DOMAIN s : Nand!Stands(s, k)}
           L == Nand!Cardinality(standing)
           at(n) == CHOOSE k \in standing : Nand!Cardinality({j \in standing : j <= k}) = n
<1>1. Len(s) \in Nat /\ DOMAIN s = 1 .. Len(s)
  BY LenProperties
<1>2. PICK pos : Stacked(s, Len(s), Nand!Resolved(s), pos)
  BY ResolvedStacked
<1>3. Len(pos) \in Nat /\ \A j \in 1 .. Len(pos) : pos[j] \in 1 .. Len(s)
  BY <1>1, <1>2, StackedStands
<1>4. \A k : Nand!Stands(s, k) <=> StandsAfter(s, Len(s), k)
  BY StandsAtEnd
<1>5. \A k \in 1 .. Len(s) : k \in standing <=> \E j \in 1 .. Len(pos) : pos[j] = k
  BY <1>1, <1>2, <1>4 DEF Stacked
<1>6. standing = {pos[j] : j \in 1 .. Len(pos)}
  BY <1>1, <1>3, <1>5
<1>7. pos \in Seq(1 .. Len(s)) /\ Rising(pos)
  BY <1>2 DEF Stacked
<1> HIDE DEF standing
<1>8. L = Len(pos)
  <2>1. Len(pos) \in 0 .. Len(pos)
    BY <1>3
  <2>2. Cardinality(standing) = Len(pos)
    BY <1>1, <1>6, <1>7, <2>1, RisingCounted
  <2> QED BY <2>2, SameCardinality
<1>9. \A i \in 1 .. Len(pos) : Nand!Cardinality({j \in standing : j <= pos[i]}) = i
  <2> SUFFICES ASSUME NEW i \in 1 .. Len(pos) PROVE Nand!Cardinality({j \in standing : j <= pos[i]}) = i
    OBVIOUS
  <2>1. \A j \in 1 .. Len(pos) : pos[j] <= pos[i] <=> j \in 1 .. i
    <3> SUFFICES ASSUME NEW j \in 1 .. Len(pos) PROVE pos[j] <= pos[i] <=> j \in 1 .. i
      OBVIOUS
    <3>1. i < j => pos[i] < pos[j]
      BY <1>7 DEF Rising
    <3>2. j < i => pos[j] < pos[i]
      BY <1>7 DEF Rising
    <3>3. pos[i] \in Nat /\ pos[j] \in Nat
      BY <1>1, <1>3
    <3> QED BY <1>3, <3>1, <3>2, <3>3
  <2>2. {j \in standing : j <= pos[i]} = {pos[j] : j \in 1 .. i}
    <3>1. \A j : j \in 1 .. i => j \in 1 .. Len(pos)
      BY <1>3
    <3>2. ASSUME NEW x \in standing, x <= pos[i] PROVE \E j \in 1 .. i : x = pos[j]
      <4>1. PICK j \in 1 .. Len(pos) : x = pos[j]
        BY <1>6
      <4> QED BY <2>1, <3>2, <4>1
    <3>3. ASSUME NEW j \in 1 .. i PROVE pos[j] \in standing /\ pos[j] <= pos[i]
      BY <1>6, <2>1, <3>1
    <3> QED BY <3>2, <3>3
  <2>3. i \in 0 .. Len(pos)
    BY <1>3
  <2>4. Cardinality({pos[j] : j \in 1 .. i}) = i
    BY <1>1, <1>7, <2>3, RisingCounted
  <2> QED BY <2>2, <2>4, SameCardinality
<1>10. \A n \in 1 .. L : at(n) = pos[n]
  <2> SUFFICES ASSUME NEW n \in 1 .. Len(pos) PROVE at(n) = pos[n]
    BY <1>8
  <2>1. pos[n] \in standing /\ Nand!Cardinality({j \in standing : j <= pos[n]}) = n
    BY <1>6, <1>9
  <2>2. \A k \in standing : Nand!Cardinality({j \in standing : j <= k}) = n => k = pos[n]
    BY <1>6, <1>9
  <2> QED BY <2>1, <2>2
<1> DEFINE r == Nand!Resolved(s)
<1>11. r \in Seq(STRING) /\ Len(r) = L /\ \A n \in 1 .. L : r[n] = s[pos[n]]
  BY <1>2, <1>8 DEF Stacked
<1>12. r = [n \in 1 .. L |-> r[n]]
  BY <1>11, LenProperties
<1> HIDE DEF r, at, L
<1>13. r = [n \in 1 .. L |-> s[at(n)]]
  BY <1>10, <1>11, <1>12
<1> QED BY <1>13 DEF r, at, L, standing

LEMMA PathsResolved == \A p \in GuestPaths : Nand!Normalize(p) = Nand!Meaning(p)
<1> SUFFICES ASSUME NEW p \in GuestPaths PROVE Nand!Normalize(p) = Nand!Meaning(p)
  OBVIOUS
<1>1. Nand!FullPath(p) \in Seq(STRING)
  BY NandAssumption, ConcatProperties DEF Nand!PathsTyped, Nand!FullPath
<1>2. Nand!Normalize(p) = Nand!Resolved(Nand!FullPath(p))
  BY DEF Nand!Normalize, Nand!FullPath
<1> QED BY <1>1, <1>2, PathResolved DEF Nand!Meaning

\* An open info reads its own file, the one its path means, from where its last read ended,
\* whatever else was opened, reopened and closed (switch_nand_open_runtime.cpp).
THEOREM OpenReadsItsFile == Nand!Spec => []OpenInfoReadsItsFile
<1>1. NandInv => OpenInfoReadsItsFile
  BY PathsResolved DEF NandInv, Reads, Nand!OpenInfoReadsItsFile, OpenInfoReadsItsFile
<1> QED BY <1>1, NandInvariant, PTL

(***************************************************************************)
(* Video interface and retrace                                             *)
(***************************************************************************)
\* What has been flushed and not set again is shown; nothing has happened before VIInit.
Settled ==
  /\ Video!FlushedIsShown
  /\ ~initialized => count = 0 /\ shown.format = 0 /\ now = 0 /\ last = 0

\* A thread inside VIWaitForRetrace has a retrace of its own, and has got as far with the
\* callbacks of that retrace as its place says.
Served(t) ==
  LET called == {i \in DOMAIN calls : calls[i].retrace = call[t].value}
  IN  /\ call[t].at # "outside" => call[t].value \in 1 .. count
      /\ call[t].at = "waking" => called = {}
      /\ call[t].at = "pre" => called # {} /\ \A i \in called : calls[i].kind = "pre"
      /\ call[t].at = "post" => ~call[t].post

Inside(t) == call[t].at # "outside"

Numbered ==
  /\ Video!CallbacksNumbered
  /\ \A i \in DOMAIN calls : calls[i].retrace <= count
  /\ \A t \in Callers : Served(t)
  /\ \A t, u \in Callers : t # u /\ Inside(t) /\ Inside(u) => call[t].value # call[u].value

VideoInv == Settled /\ Numbered /\ Video!PacedByDeadlines

LEMMA VideoTypes ==
  ASSUME Video!VideoConstants, VideoInv
  PROVE  /\ Buffers \subseteq Nat \ {0} /\ OtherInterval \in Nat \ {0} /\ PalInterval \in Nat
         /\ OtherInterval <= PalInterval /\ MaxRetraces \in Nat /\ MaxNow \in Nat
         /\ initialized \in BOOLEAN /\ armed \in BOOLEAN /\ system \in BOOLEAN
         /\ pend.format \in {0, 1} /\ pend.black \in BOOLEAN /\ pend.buffer \in Buffers \cup {0}
         /\ shown.format \in {0, 1}
         /\ count \in 0 .. MaxRetraces /\ last \in Nat /\ now \in 0 .. MaxNow
         /\ word.buffer \in Buffers \cup {0} /\ word.hardware \in Buffers \cup {0}
         /\ \A t \in Callers : /\ call[t] \in [at : Video!Places, value : 0 .. MaxRetraces, post : BOOLEAN]
                               /\ call[t].value \in 0 .. MaxRetraces /\ call[t].post \in BOOLEAN
         /\ calls \in Seq([kind : {"pre", "post"}, retrace : 1 .. MaxRetraces, r3 : 0 .. MaxRetraces])
         /\ Video!Interval \in {PalInterval, OtherInterval}
<1>1. /\ Buffers \subseteq Nat \ {0} /\ OtherInterval \in Nat \ {0} /\ PalInterval \in Nat
      /\ OtherInterval <= PalInterval /\ MaxRetraces \in Nat /\ MaxNow \in Nat
  BY DEF Video!VideoConstants
<1>2. Video!TypeOK
  BY DEF VideoInv, Settled, Video!FlushedIsShown
<1>3. pend.format \in {0, 1} /\ pend.black \in BOOLEAN /\ pend.buffer \in Buffers \cup {0} /\ shown.format \in {0, 1}
  BY <1>2 DEF Video!TypeOK, Video!Settings, Video!Formats
<1>4. word.buffer \in Buffers \cup {0} /\ word.hardware \in Buffers \cup {0}
  BY <1>2 DEF Video!TypeOK
<1>5. \A t \in Callers : /\ call[t] \in [at : Video!Places, value : 0 .. MaxRetraces, post : BOOLEAN]
                         /\ call[t].value \in 0 .. MaxRetraces /\ call[t].post \in BOOLEAN
  BY <1>2 DEF Video!TypeOK
<1> QED BY <1>1, <1>2, <1>3, <1>4, <1>5 DEF Video!TypeOK, Video!Interval

\* The settings are as they were, but for what the step says of them.
LEMMA PacedStays ==
  ASSUME Video!VideoConstants, VideoInv, UNCHANGED <<initialized, count, last>>, now' \in Nat, now <= now'
  PROVE  Video!PacedByDeadlines'
BY VideoTypes DEF VideoInv, Video!PacedByDeadlines

LEMMA NumberedStays ==
  ASSUME Numbered, UNCHANGED <<count, call, calls>>
  PROVE  Numbered'
<1>1. \A t : Served(t)' <=> Served(t)
  BY DEF Served
<1>2. \A t : Inside(t)' <=> Inside(t)
  BY DEF Inside
<1>3. Video!CallbacksNumbered'
  BY DEF Numbered, Video!CallbacksNumbered
<1> QED BY <1>1, <1>2, <1>3 DEF Numbered

LEMMA SettledStays ==
  ASSUME Video!VideoConstants, VideoInv,
         UNCHANGED <<initialized, pend, shown, armed, count, last, system, flushed>>,
         now' \in 0 .. MaxNow, asleep' \subseteq Callers, Video!TypeOK', word'.format = word.format, word'.count = word.count,
         ~initialized => now' = now
  PROVE  Settled'
BY DEF VideoInv, Settled, Video!FlushedIsShown

\* The entry points that set or ask for something.
LEMMA SettingsKeepVideo ==
  ASSUME Video!VideoConstants, VideoInv, NEW t \in Callers
  PROVE  /\ Video!VIInit(t) => VideoInv'
         /\ \A black \in BOOLEAN : Video!VISetBlack(t, black) => VideoInv'
         /\ \A format \in Video!Formats : Video!VIConfigure(t, format) => VideoInv'
         /\ Video!VIFlush(t) => VideoInv'
<1>0. Video!TypeOK /\ Video!FlushedIsShown /\ Video!PacedByDeadlines /\ Numbered
      /\ (~initialized => count = 0 /\ shown.format = 0 /\ now = 0 /\ last = 0)
  BY DEF VideoInv, Settled, Video!FlushedIsShown
<1>1. ASSUME Video!VIInit(t) PROVE VideoInv'
  <2>1. /\ ~initialized /\ initialized' = TRUE /\ last' = now
        /\ word' = [format |-> 0, buffer |-> 0, hardware |-> 0, count |-> 0, pre |-> "none", post |-> "none"]
        /\ UNCHANGED <<pend, armed, flushed, shown, count, now, system, asleep, call, calls>>
    BY <1>1 DEF Video!VIInit, Video!settings
  <2>2. Video!TypeOK'
    BY <1>0, <2>1, VideoTypes DEF Video!TypeOK, Video!Formats, Video!Callbacks
  <2>3. Settled'
    BY <1>0, <2>1, <2>2 DEF Settled, Video!FlushedIsShown
  <2>4. Video!PacedByDeadlines'
    BY <1>0, <2>1, VideoTypes DEF Video!PacedByDeadlines
  <2> QED BY <1>0, <2>1, <2>3, <2>4, NumberedStays DEF VideoInv
<1>2. ASSUME NEW black \in BOOLEAN, Video!VISetBlack(t, black) PROVE VideoInv'
  <2>1. /\ initialized /\ pend' = [pend EXCEPT !.black = black] /\ flushed' = flushed \ {"black"}
        /\ UNCHANGED <<initialized, shown, armed, count, last, now, word, system, asleep, call, calls>>
    BY <1>2 DEF Video!VISetBlack, Video!Set
  <2>2. pend' \in Video!Settings /\ pend'.format = pend.format
    BY <1>0, <2>1 DEF Video!TypeOK, Video!Settings
  <2>3. Video!TypeOK'
    BY <1>0, <2>1, <2>2 DEF Video!TypeOK
  <2>4. \A field \in flushed' : field = "format"
    BY <1>0, <2>1 DEF Video!TypeOK, Video!Fields
  <2>5. Settled'
    BY <1>0, <2>1, <2>2, <2>3, <2>4 DEF Settled, Video!FlushedIsShown
  <2> QED BY <1>0, <2>1, <2>5, NumberedStays, PacedStays, VideoTypes DEF VideoInv
<1>3. ASSUME NEW format \in Video!Formats, Video!VIConfigure(t, format) PROVE VideoInv'
  <2>1. /\ initialized /\ pend' = [pend EXCEPT !.format = format] /\ flushed' = flushed \ {"format"}
        /\ UNCHANGED <<initialized, shown, armed, count, last, now, word, system, asleep, call, calls>>
    BY <1>3 DEF Video!VIConfigure, Video!Set
  <2>2. pend' \in Video!Settings /\ pend'.black = pend.black
    BY <1>0, <2>1 DEF Video!TypeOK, Video!Settings
  <2>3. Video!TypeOK'
    BY <1>0, <2>1, <2>2 DEF Video!TypeOK
  <2>4. \A field \in flushed' : field = "black"
    BY <1>0, <2>1 DEF Video!TypeOK, Video!Fields
  <2>5. Settled'
    BY <1>0, <2>1, <2>2, <2>3, <2>4 DEF Settled, Video!FlushedIsShown
  <2> QED BY <1>0, <2>1, <2>5, NumberedStays, PacedStays, VideoTypes DEF VideoInv
<1>4. ASSUME Video!VIFlush(t) PROVE VideoInv'
  <2>1. /\ initialized /\ pend' = [pend EXCEPT !.buffer = Video!Recovered] /\ armed' = TRUE /\ flushed' = Video!Fields
        /\ UNCHANGED <<initialized, shown, count, last, now, word, system, asleep, call, calls>>
    BY <1>4 DEF Video!VIFlush
  <2>2. Video!Recovered \in Buffers \cup {0}
    BY VideoTypes DEF Video!Recovered
  <2>3. pend' \in Video!Settings
    BY <1>0, <2>1, <2>2 DEF Video!TypeOK, Video!Settings
  <2>4. Video!TypeOK'
    BY <1>0, <2>1, <2>3 DEF Video!TypeOK
  <2>5. Settled'
    BY <1>0, <2>1, <2>4 DEF Settled, Video!FlushedIsShown
  <2> QED BY <1>0, <2>1, <2>5, NumberedStays, PacedStays, VideoTypes DEF VideoInv
<1> QED BY <1>1, <1>2, <1>3, <1>4

\* What the guest, the engine and the clock do on their own.
LEMMA SurroundingsKeepVideo ==
  ASSUME Video!VideoConstants, VideoInv, NEW t \in Callers
  PROVE  /\ \A buffer \in Buffers : Video!VISetNextFrameBuffer(t, buffer) => VideoInv'
         /\ \A callback \in Video!Callbacks : Video!VISetPostRetraceCallback(t, callback) => VideoInv'
         /\ \A callback \in Video!Callbacks : Video!VISetPreRetraceCallback(t, callback) => VideoInv'
         /\ Video!SleepOnRetrace(t) => VideoInv'
<1>0. Video!TypeOK /\ Numbered
  BY DEF VideoInv, Settled, Video!FlushedIsShown
<1>1. ASSUME NEW w, Video!SetWord(t, w), w.format = word.format, w.count = word.count,
             w \in [format : Video!Formats, buffer : Buffers \cup {0}, hardware : Buffers \cup {0},
                    count : 0 .. MaxRetraces, pre : Video!Callbacks, post : Video!Callbacks]
      PROVE  VideoInv'
  <2>1. /\ initialized /\ word' = w
        /\ UNCHANGED <<initialized, pend, armed, flushed, shown, count, last, now, system, asleep, call, calls>>
    BY <1>1 DEF Video!SetWord, Video!settings
  <2>2. Video!TypeOK'
    BY <1>0, <1>1, <2>1 DEF Video!TypeOK
  <2>3. Settled'
    BY <1>0, <1>1, <2>1, <2>2, SettledStays, VideoTypes DEF Video!TypeOK
  <2> QED BY <1>0, <2>1, <2>3, NumberedStays, PacedStays, VideoTypes DEF VideoInv
<1>2. word \in [format : Video!Formats, buffer : Buffers \cup {0}, hardware : Buffers \cup {0},
                count : 0 .. MaxRetraces, pre : Video!Callbacks, post : Video!Callbacks]
  BY <1>0 DEF Video!TypeOK
<1>3. ASSUME NEW buffer \in Buffers, Video!VISetNextFrameBuffer(t, buffer) PROVE VideoInv'
  <2> DEFINE w == [word EXCEPT !.buffer = buffer]
  <2>1. /\ w.format = word.format /\ w.count = word.count
        /\ w \in [format : Video!Formats, buffer : Buffers \cup {0}, hardware : Buffers \cup {0},
                  count : 0 .. MaxRetraces, pre : Video!Callbacks, post : Video!Callbacks]
    BY <1>2
  <2>2. Video!SetWord(t, w)
    BY <1>3 DEF Video!VISetNextFrameBuffer
  <2> HIDE DEF w
  <2> QED BY <1>1, <2>1, <2>2
<1>4. ASSUME NEW callback \in Video!Callbacks, Video!VISetPostRetraceCallback(t, callback) PROVE VideoInv'
  <2> DEFINE w == [word EXCEPT !.post = callback]
  <2>1. /\ w.format = word.format /\ w.count = word.count
        /\ w \in [format : Video!Formats, buffer : Buffers \cup {0}, hardware : Buffers \cup {0},
                  count : 0 .. MaxRetraces, pre : Video!Callbacks, post : Video!Callbacks]
    BY <1>2
  <2>2. Video!SetWord(t, w)
    BY <1>4 DEF Video!VISetPostRetraceCallback
  <2> HIDE DEF w
  <2> QED BY <1>1, <2>1, <2>2
<1>5. ASSUME NEW callback \in Video!Callbacks, Video!VISetPreRetraceCallback(t, callback) PROVE VideoInv'
  <2> DEFINE w == [word EXCEPT !.pre = callback]
  <2>1. /\ w.format = word.format /\ w.count = word.count
        /\ w \in [format : Video!Formats, buffer : Buffers \cup {0}, hardware : Buffers \cup {0},
                  count : 0 .. MaxRetraces, pre : Video!Callbacks, post : Video!Callbacks]
    BY <1>2
  <2>2. Video!SetWord(t, w)
    BY <1>5 DEF Video!VISetPreRetraceCallback
  <2> HIDE DEF w
  <2> QED BY <1>1, <2>1, <2>2
<1>6. ASSUME Video!SleepOnRetrace(t) PROVE VideoInv'
  <2>1. /\ asleep' = asleep \cup {t}
        /\ UNCHANGED <<initialized, pend, armed, flushed, shown, count, last, now, word, system, call, calls>>
    BY <1>6 DEF Video!SleepOnRetrace, Video!settings
  <2>2. Video!TypeOK'
    BY <1>0, <2>1 DEF Video!TypeOK
  <2>3. Settled'
    BY <1>0, <2>1, <2>2, SettledStays, VideoTypes DEF Video!TypeOK
  <2> QED BY <1>0, <2>1, <2>3, NumberedStays, PacedStays, VideoTypes DEF VideoInv
<1> QED BY <1>3, <1>4, <1>5, <1>6

LEMMA TimePasses ==
  ASSUME Video!VideoConstants, VideoInv, Video!Tick \/ Video!CreateSystem
  PROVE  VideoInv'
<1>0. Video!TypeOK /\ Numbered /\ Video!FlushedIsShown
      /\ (~initialized => count = 0 /\ shown.format = 0 /\ now = 0 /\ last = 0)
  BY DEF VideoInv, Settled, Video!FlushedIsShown
<1>1. /\ UNCHANGED <<initialized, pend, armed, flushed, shown, count, last, word, asleep, call, calls>>
      /\ now' \in {now, now + 1} /\ now' <= MaxNow /\ system' \in {system, TRUE} /\ (~initialized => now' = now)
  <2>1. CASE Video!Tick
    BY <2>1, VideoTypes DEF Video!Tick, Video!settings
  <2>2. CASE Video!CreateSystem
    BY <2>2, VideoTypes DEF Video!CreateSystem, Video!settings
  <2> QED BY <2>1, <2>2
<1>2. now' \in 0 .. MaxNow /\ now <= now' /\ now' \in Nat
  BY <1>1, VideoTypes
<1>3. Video!TypeOK'
  BY <1>0, <1>1, <1>2 DEF Video!TypeOK
<1>4. Settled'
  BY <1>0, <1>1, <1>3 DEF Settled, Video!FlushedIsShown
<1> QED BY <1>0, <1>1, <1>2, <1>4, NumberedStays, PacedStays DEF VideoInv

Call(kind, n, r3) == [kind |-> kind, retrace |-> n, r3 |-> r3]
VideoCalls == [kind : {"pre", "post"}, retrace : 1 .. MaxRetraces, r3 : 0 .. MaxRetraces]
VideoPlaces == [at : Video!Places, value : 0 .. MaxRetraces, post : BOOLEAN]

\* A thread calls the callbacks of the retrace it serves, none of which it has called; or
\* it has called the first of them, and now may call the second.
LEMMA CallingNumbered ==
  ASSUME Video!VideoConstants, VideoInv, NEW t \in Callers, NEW n \in 1 .. MaxRetraces,
         NEW pre \in BOOLEAN, NEW post \in BOOLEAN, NEW r3 \in 0 .. MaxRetraces,
         Video!Calling(t, n, pre, post, r3),
         count' \in Nat, count <= count', n <= count',
         \A u \in Callers \ {t} : Inside(u) => call[u].value # n,
         \/ (\A i \in DOMAIN calls : calls[i].retrace # n) /\ r3 = n
         \/ /\ ~pre /\ \E i \in DOMAIN calls : calls[i].retrace = n
            /\ \A i \in DOMAIN calls : calls[i].retrace = n => calls[i].kind = "pre"
  PROVE  Numbered' /\ call' \in [Callers -> VideoPlaces] /\ calls' \in Seq(VideoCalls)
<1> DEFINE kind == IF pre THEN "pre" ELSE IF post /\ system THEN "post" ELSE "outside"
           place == [at |-> kind, value |-> n, post |-> pre /\ post]
           c == Call(kind, n, r3)
<1>0. /\ calls \in Seq(VideoCalls) /\ call \in [Callers -> VideoPlaces] /\ count \in Nat /\ Numbered
      /\ n \in Nat /\ n \in 0 .. MaxRetraces /\ MaxRetraces \in Nat
  <2>1. Video!TypeOK /\ Numbered
    BY DEF VideoInv, Settled, Video!FlushedIsShown
  <2>2. n \in Nat /\ n \in 0 .. MaxRetraces /\ count \in Nat /\ MaxRetraces \in Nat
    BY VideoTypes
  <2> QED BY <2>1, <2>2 DEF Video!TypeOK, VideoCalls, VideoPlaces
<1>1. kind \in {"pre", "post", "outside"} /\ (kind = "pre" <=> pre)
  OBVIOUS
<1>2. \A i \in DOMAIN calls : calls[i].retrace \in Nat /\ calls[i].retrace <= count
  <2>1. \A i \in DOMAIN calls : calls[i] \in VideoCalls
    BY <1>0, ElementOfSeq
  <2>2. \A i \in DOMAIN calls : calls[i].retrace \in Nat
    BY <1>0, <2>1 DEF VideoCalls
  <2> QED BY <1>0, <2>2 DEF Numbered
<1>3. ASSUME NEW u \in Callers, Inside(u) PROVE call[u].value \in 1 .. count'
  <2>1. call[u].value \in 1 .. count
    BY <1>0, <1>3 DEF Numbered, Served, Inside
  <2> QED BY <1>0, <2>1
<1>4. CASE kind = "outside"
  <2>1. call' = [call EXCEPT ![t] = Video!Outside] /\ calls' = calls
    BY <1>4 DEF Video!Calling
  <2>2. Video!Outside \in VideoPlaces /\ Video!Outside.at = "outside"
    BY <1>0 DEF Video!Outside, VideoPlaces, Video!Places
  <2>3. /\ call' \in [Callers -> VideoPlaces] /\ call'[t] = Video!Outside
        /\ \A u \in Callers \ {t} : call'[u] = call[u]
    BY <1>0, <2>1, <2>2
  <2>4. ASSUME NEW u \in Callers PROVE Served(u)'
    <3>1. CASE u = t
      BY <2>2, <2>3, <3>1 DEF Served
    <3>2. CASE u # t
      BY <1>0, <1>3, <2>1, <2>3, <3>2 DEF Numbered, Served, Inside
    <3> QED BY <3>1, <3>2
  <2>5. Video!CallbacksNumbered'
    BY <1>0, <2>1 DEF Numbered, Video!CallbacksNumbered
  <2>6. ASSUME NEW i \in DOMAIN calls' PROVE calls'[i].retrace <= count'
    <3>1. calls[i].retrace <= count /\ calls[i].retrace \in Nat
      BY <1>2, <2>1
    <3> QED BY <1>0, <2>1, <3>1
  <2>7. \A u, v \in Callers : u # v /\ Inside(u)' /\ Inside(v)' => call'[u].value # call'[v].value
    BY <1>0, <2>2, <2>3 DEF Numbered, Inside
  <2> QED BY <1>0, <2>1, <2>3, <2>4, <2>5, <2>6, <2>7 DEF Numbered
<1>5. CASE kind # "outside"
  <2>1. call' = [call EXCEPT ![t] = place] /\ calls' = Append(calls, c)
    BY <1>5 DEF Video!Calling, Call
  <2>2. /\ place \in VideoPlaces /\ place.at = kind /\ place.value = n /\ place.post = (pre /\ post)
        /\ c \in VideoCalls /\ c.kind = kind /\ c.retrace = n /\ c.r3 = r3
    BY <1>0, <1>1, <1>5 DEF VideoPlaces, Video!Places, VideoCalls, Call
  <2> HIDE DEF place, c
  <2>3. /\ call' \in [Callers -> VideoPlaces] /\ call'[t] = place
        /\ \A u \in Callers \ {t} : call'[u] = call[u]
    BY <1>0, <2>1, <2>2
  <2> DEFINE L == Len(calls)
  <2>4. /\ calls' \in Seq(VideoCalls) /\ L \in Nat /\ DOMAIN calls = 1 .. L /\ DOMAIN calls' = 1 .. L + 1
        /\ calls'[L + 1] = c /\ \A i \in 1 .. L : calls'[i] = calls[i]
    <3>1. L \in Nat /\ DOMAIN calls = 1 .. L
      BY <1>0
    <3> HIDE DEF VideoCalls
    <3> QED BY <1>0, <2>1, <2>2, <3>1
  <2>5. \A i \in 1 .. L : calls[i].retrace \in Nat /\ calls[i].retrace <= count
    BY <1>2, <2>4
  <2> HIDE DEF L, kind
  <2>6. ASSUME NEW i \in 1 .. L + 1 PROVE i \in 1 .. L \/ i = L + 1
    BY <2>4
  <2>7. L + 1 \in 1 .. L + 1 /\ 1 .. L \subseteq 1 .. L + 1 /\ L + 1 \notin 1 .. L
    BY <2>4
  <2>8. ASSUME NEW i \in DOMAIN calls' PROVE calls'[i].retrace <= count'
    BY <1>0, <2>2, <2>4, <2>5, <2>6
  <2>9. ASSUME NEW u \in Callers PROVE Served(u)'
    <3>1. CASE u = t
      <4>1. n \in 1 .. count' /\ call'[u] = place
        BY <1>0, <2>3, <3>1
      <4>2. kind = "pre" => \A i \in 1 .. L : calls[i].retrace # n
        BY <1>1, <2>4
      <4>3. kind = "post" => ~pre
        BY <1>1
      <4>4. kind = "pre" => \A i \in DOMAIN calls' : calls'[i].retrace = n => calls'[i].kind = "pre"
        BY <2>2, <2>4, <2>6, <4>2
      <4>5. L + 1 \in DOMAIN calls' /\ calls'[L + 1].retrace = n
        BY <2>2, <2>4, <2>7
      <4> QED BY <1>1, <1>5, <2>2, <4>1, <4>3, <4>4, <4>5 DEF Served
    <3>2. CASE u # t
      <4>1. call'[u] = call[u] /\ Served(u)
        BY <1>0, <2>3, <3>2 DEF Numbered
      <4>2. Inside(u) => call[u].value # n /\ call[u].value \in 1 .. count'
        BY <1>3, <3>2
      <4>3. CASE ~Inside(u)
        BY <4>1, <4>3 DEF Inside, Served
      <4>4. CASE Inside(u)
        <5>1. {i \in DOMAIN calls' : calls'[i].retrace = call[u].value} = {i \in DOMAIN calls : calls[i].retrace = call[u].value}
          BY <2>2, <2>4, <2>6, <2>7, <4>2, <4>4
        <5>2. \A i \in DOMAIN calls : calls'[i] = calls[i]
          BY <2>4
        <5> QED BY <4>1, <4>2, <4>4, <5>1, <5>2 DEF Served
      <4> QED BY <4>3, <4>4
    <3> QED BY <3>1, <3>2
  <2>10. \A u, v \in Callers : u # v /\ Inside(u)' /\ Inside(v)' => call'[u].value # call'[v].value
    BY <1>0, <2>2, <2>3 DEF Numbered, Inside
  <2>11. Video!CallbacksNumbered'
    <3>1. ASSUME NEW i \in DOMAIN calls', NEW j \in DOMAIN calls', calls'[i].retrace = calls'[j].retrace, i < j
          PROVE  calls'[i].kind = "pre" /\ calls'[j].kind = "post"
      <4>1. i \in 1 .. L
        BY <2>4, <3>1
      <4>2. CASE j \in 1 .. L
        BY <1>0, <2>4, <3>1, <4>1, <4>2 DEF Numbered, Video!CallbacksNumbered
      <4>3. CASE j = L + 1
        <5>1. i \in DOMAIN calls /\ calls[i].retrace = n
          BY <2>2, <2>4, <3>1, <4>1, <4>3
        <5>2. ~pre /\ calls[i].kind = "pre"
          BY <5>1
        <5> QED BY <1>1, <1>5, <2>2, <2>4, <4>1, <4>3, <5>2
      <4> QED BY <2>4, <2>6, <4>2, <4>3
    <3>2. ASSUME NEW i \in DOMAIN calls'
          PROVE  calls'[i].r3 = calls'[i].retrace \/ \E k \in 1 .. i - 1 : calls'[k].retrace = calls'[i].retrace
      <4>1. CASE i \in 1 .. L
        <5>1. calls[i].r3 = calls[i].retrace \/ \E k \in 1 .. i - 1 : calls[k].retrace = calls[i].retrace
          BY <1>0, <2>4, <4>1 DEF Numbered, Video!CallbacksNumbered
        <5>2. \A k \in 1 .. i - 1 : k \in 1 .. L
          BY <2>4, <4>1
        <5> QED BY <2>4, <4>1, <5>1, <5>2
      <4>2. CASE i = L + 1
        <5>1. r3 = n \/ \E k \in 1 .. L : calls[k].retrace = n
          BY <2>4
        <5>2. (L + 1) - 1 = L
          BY <2>4
        <5> QED BY <2>2, <2>4, <4>2, <5>1, <5>2
      <4> QED BY <2>4, <2>6, <4>1, <4>2
    <3> QED BY <3>1, <3>2 DEF Video!CallbacksNumbered
  <2> QED BY <2>3, <2>4, <2>8, <2>9, <2>10, <2>11 DEF Numbered
<1> QED BY <1>4, <1>5

\* A retrace is over when its callbacks have been called, by which time others may have
\* happened.
LEMMA LaterStepsKeepVideo ==
  ASSUME Video!VideoConstants, VideoInv, NEW t \in Callers, Video!Woken(t) \/ Video!CallbackReturns(t)
  PROVE  VideoInv'
<1> DEFINE n == call[t].value
<1>1. /\ UNCHANGED <<initialized, pend, armed, flushed, shown, count, last, now, word, system, asleep>>
      /\ Inside(t) /\ n \in 1 .. MaxRetraces /\ n <= count /\ count \in Nat /\ MaxRetraces \in Nat
      /\ call[t].post \in BOOLEAN
  <2>1. /\ UNCHANGED <<initialized, pend, armed, flushed, shown, count, last, now, word, system, asleep>>
        /\ Inside(t)
    BY DEF Video!Woken, Video!CallbackReturns, Video!settings, Video!InCallback, Inside
  <2>2. n \in 1 .. count
    BY <2>1 DEF VideoInv, Numbered, Served, Inside
  <2> QED BY <2>1, <2>2, VideoTypes
<1>2. \A u \in Callers \ {t} : Inside(u) => call[u].value # n
  BY <1>1 DEF VideoInv, Numbered
<1>3. Numbered' /\ call' \in [Callers -> VideoPlaces] /\ calls' \in Seq(VideoCalls)
  <2>1. CASE Video!Woken(t)
    <3>1. /\ call[t].at = "waking" /\ Video!Calling(t, n, word.pre # "none", word.post # "none", n)
          /\ n \in 0 .. MaxRetraces
      BY <1>1, <2>1 DEF Video!Woken
    <3>2. \A i \in DOMAIN calls : calls[i].retrace # n
      BY <3>1 DEF VideoInv, Numbered, Served
    <3> DEFINE pre == word.pre # "none"
               post == word.post # "none"
    <3>3. /\ pre \in BOOLEAN /\ post \in BOOLEAN /\ n \in 1 .. MaxRetraces /\ n \in 0 .. MaxRetraces
          /\ count' \in Nat /\ count <= count' /\ n <= count'
      BY <1>1, <3>1
    <3>4. Video!Calling(t, n, pre, post, n)
      BY <3>1
    <3> HIDE DEF n, pre, post
    <3> QED BY <1>2, <3>2, <3>3, <3>4, CallingNumbered
  <2>2. CASE Video!CallbackReturns(t)
    <3>1. /\ call[t].at \in {"pre", "post"} /\ Video!Calling(t, n, FALSE, call[t].post, 0)
      BY <2>2 DEF Video!CallbackReturns, Video!InCallback
    <3>2. CASE call[t].at = "pre"
      <4>1. /\ \E i \in DOMAIN calls : calls[i].retrace = n
            /\ \A i \in DOMAIN calls : calls[i].retrace = n => calls[i].kind = "pre"
        BY <3>2 DEF VideoInv, Numbered, Served
      <4> DEFINE pre == FALSE
                 post == call[t].post
      <4>2. /\ pre \in BOOLEAN /\ ~pre /\ post \in BOOLEAN /\ n \in 1 .. MaxRetraces
            /\ count' \in Nat /\ count <= count' /\ n <= count'
        BY <1>1
      <4>3. 0 \in 0 .. MaxRetraces
        BY <1>1
      <4>4. Video!Calling(t, n, pre, post, 0)
        BY <3>1
      <4> HIDE DEF n, pre, post
      <4> QED BY <1>2, <4>1, <4>2, <4>3, <4>4, CallingNumbered
    <3>3. CASE call[t].at = "post"
      <4>1. call[t].post = FALSE
        BY <1>1, <3>3 DEF VideoInv, Numbered, Served
      <4>2. call' = [call EXCEPT ![t] = Video!Outside] /\ calls' = calls
        BY <3>1, <4>1 DEF Video!Calling
      <4>3. Numbered /\ call \in [Callers -> VideoPlaces] /\ calls \in Seq(VideoCalls)
        BY DEF VideoInv, Settled, Video!FlushedIsShown, Video!TypeOK, VideoPlaces, VideoCalls
      <4>4. Video!Outside \in VideoPlaces /\ Video!Outside.at = "outside"
        BY <1>1 DEF Video!Outside, VideoPlaces, Video!Places
      <4>5. /\ call' \in [Callers -> VideoPlaces] /\ call'[t] = Video!Outside
            /\ \A u \in Callers \ {t} : call'[u] = call[u]
        BY <4>2, <4>3, <4>4
      <4>6. ASSUME NEW u \in Callers PROVE Served(u)'
        BY <1>1, <4>2, <4>3, <4>4, <4>5 DEF Numbered, Served
      <4>7. Video!CallbacksNumbered'
        BY <4>2, <4>3 DEF Numbered, Video!CallbacksNumbered
      <4>8. \A u, v \in Callers : u # v /\ Inside(u)' /\ Inside(v)' => call'[u].value # call'[v].value
        BY <4>3, <4>4, <4>5 DEF Numbered, Inside
      <4> QED BY <1>1, <4>2, <4>3, <4>5, <4>6, <4>7, <4>8 DEF Numbered
    <3> QED BY <3>1, <3>2, <3>3
  <2> QED BY <2>1, <2>2
<1>4. Video!TypeOK'
  BY <1>1, <1>3 DEF VideoInv, Settled, Video!FlushedIsShown, Video!TypeOK, VideoPlaces, VideoCalls
<1>5. Settled'
  BY <1>1, <1>4 DEF VideoInv, Settled, Video!FlushedIsShown
<1> QED BY <1>1, <1>3, <1>5, PacedStays, VideoTypes DEF VideoInv

\* A retrace shows what was flushed, takes a number that nothing has, and is at its
\* deadline, however late.
LEMMA RetraceKeepsVideo ==
  ASSUME Video!VideoConstants, VideoInv, NEW t \in Callers, Video!VIWaitForRetrace(t)
  PROVE  VideoInv'
<1> DEFINE n == count + 1
           step == Video!Interval
<1>0. Video!TypeOK /\ Numbered /\ Video!FlushedIsShown /\ Video!PacedByDeadlines
  BY DEF VideoInv, Settled, Video!FlushedIsShown
<1>1. /\ initialized /\ call[t].at = "outside" /\ count < MaxRetraces /\ last + step <= MaxNow
      /\ now' = (IF now < last + step THEN last + step ELSE now) /\ last' = last + step
      /\ armed' = FALSE /\ shown' = (IF armed THEN pend ELSE shown) /\ count' = n
      /\ word' = [word EXCEPT !.format = IF armed THEN pend.format ELSE @, !.count = n,
                              !.buffer = pend.buffer, !.hardware = pend.buffer]
      /\ UNCHANGED <<initialized, pend, system, flushed>>
  <2>1. call[t].at \in Video!Places
    BY <1>0 DEF Video!TypeOK
  <2>2. call[t].at = "outside"
    BY <2>1 DEF Video!VIWaitForRetrace, Video!InGuest, Video!InCallback, Video!Places
  <2> QED BY <2>2 DEF Video!VIWaitForRetrace, Video!RetraceTimes, Video!Committed
<1>2. /\ n \in 1 .. MaxRetraces /\ n \in 0 .. MaxRetraces /\ n \in Nat /\ count \in Nat /\ count < n
      /\ step \in {PalInterval, OtherInterval} /\ step \in Nat /\ OtherInterval <= step /\ step <= PalInterval
      /\ last \in Nat /\ now \in 0 .. MaxNow /\ MaxNow \in Nat /\ OtherInterval \in Nat /\ PalInterval \in Nat
  <2>1. /\ count \in 0 .. MaxRetraces /\ MaxRetraces \in Nat /\ count < MaxRetraces /\ step \in {PalInterval, OtherInterval}
        /\ OtherInterval \in Nat /\ PalInterval \in Nat /\ OtherInterval <= PalInterval
        /\ last \in Nat /\ now \in 0 .. MaxNow /\ MaxNow \in Nat
    BY <1>1, VideoTypes
  <2> HIDE DEF step
  <2> QED BY ONLY <2>1 DEF n
<1> HIDE DEF n, step
<1>3. \A u \in Callers : Inside(u) => call[u].value \in 1 .. count
  BY <1>0 DEF Numbered, Served, Inside
<1>4. \A i \in DOMAIN calls : calls[i].retrace # n /\ calls[i].retrace <= n
  <2>1. calls \in Seq(VideoCalls)
    BY VideoTypes DEF VideoCalls
  <2>2. \A i \in DOMAIN calls : calls[i] \in VideoCalls
    BY <2>1, ElementOfSeq
  <2>3. \A i \in DOMAIN calls : calls[i].retrace \in Nat
    BY <2>2 DEF VideoCalls
  <2>4. \A i \in DOMAIN calls : calls[i].retrace <= count
    BY <1>0 DEF Numbered
  <2> QED BY <1>2, <2>3, <2>4
<1>5. Numbered' /\ call' \in [Callers -> VideoPlaces] /\ calls' \in Seq(VideoCalls) /\ asleep' \subseteq Callers
  <2>1. CASE asleep # {}
    <3> DEFINE place == [at |-> "waking", value |-> n, post |-> FALSE]
    <3>1. asleep' = {} /\ call' = [call EXCEPT ![t] = place] /\ calls' = calls
      BY <1>1, <2>1 DEF Video!VIWaitForRetrace
    <3>2. call \in [Callers -> VideoPlaces] /\ calls \in Seq(VideoCalls)
      BY <1>0 DEF Video!TypeOK, VideoPlaces, VideoCalls
    <3>3. place \in VideoPlaces /\ place.at = "waking" /\ place.value = n
      BY <1>2 DEF VideoPlaces, Video!Places
    <3> HIDE DEF place
    <3>4. /\ call' \in [Callers -> VideoPlaces] /\ call'[t] = place
          /\ \A u \in Callers \ {t} : call'[u] = call[u]
      BY <3>1, <3>2, <3>3
    <3>5. ASSUME NEW u \in Callers PROVE Served(u)'
      <4>1. CASE u = t
        BY <1>1, <1>2, <1>4, <3>1, <3>3, <3>4, <4>1 DEF Served
      <4>2. CASE u # t
        <5>1. 1 .. count \subseteq 1 .. n
          BY <1>2
        <5> QED BY <1>0, <1>1, <3>1, <3>4, <4>2, <5>1 DEF Numbered, Served
      <4> QED BY <4>1, <4>2
    <3>6. Video!CallbacksNumbered'
      BY <1>0, <3>1 DEF Numbered, Video!CallbacksNumbered
    <3>7. ASSUME NEW u \in Callers, NEW v \in Callers, u # v, Inside(u)', Inside(v)'
          PROVE  call'[u].value # call'[v].value
      <4>1. \A x \in Callers \ {t} : Inside(x)' => call'[x].value \in 1 .. count /\ call'[x].value # n
        BY <1>2, <1>3, <3>4 DEF Inside
      <4> QED BY <1>0, <3>3, <3>4, <3>7, <4>1 DEF Numbered, Inside
    <3> QED BY <1>1, <1>4, <3>1, <3>2, <3>4, <3>5, <3>6, <3>7 DEF Numbered
  <2>2. CASE asleep = {}
    <3>1. Video!Calling(t, n, word.pre # "none", word.post # "none", n) /\ UNCHANGED asleep
      BY <1>1, <2>2 DEF Video!VIWaitForRetrace
    <3>2. \A u \in Callers \ {t} : Inside(u) => call[u].value # n
      BY <1>2, <1>3
    <3>3. count' \in Nat /\ count <= count' /\ n <= count'
      BY <1>1, <1>2
    <3> QED BY <1>2, <1>4, <2>2, <3>1, <3>2, <3>3, CallingNumbered
  <2> QED BY <2>1, <2>2
<1>6. pend \in Video!Settings /\ shown' \in Video!Settings /\ shown'.format \in Video!Formats /\ pend.buffer \in Buffers \cup {0}
  BY <1>0, <1>1 DEF Video!TypeOK, Video!Settings
<1>7. /\ word' \in [format : Video!Formats, buffer : Buffers \cup {0}, hardware : Buffers \cup {0},
                    count : 0 .. MaxRetraces, pre : Video!Callbacks, post : Video!Callbacks]
      /\ word'.format = shown'.format /\ word'.count = count'
  <2>1. word \in [format : Video!Formats, buffer : Buffers \cup {0}, hardware : Buffers \cup {0},
                  count : 0 .. MaxRetraces, pre : Video!Callbacks, post : Video!Callbacks]
    BY <1>0 DEF Video!TypeOK
  <2>2. word.format = shown.format
    BY <1>0 DEF Video!FlushedIsShown
  <2>3. word' = [word EXCEPT !.format = shown'.format, !.count = n, !.buffer = pend.buffer, !.hardware = pend.buffer]
    BY <1>1, <2>2
  <2> HIDE DEF Video!Callbacks, Video!Formats
  <2> QED BY <1>1, <1>2, <1>6, <2>1, <2>3
<1>8. last' \in Nat /\ now' \in 0 .. MaxNow /\ last' <= now' /\ count' \in 0 .. MaxRetraces
  BY <1>1, <1>2
<1>9. Video!TypeOK'
  <2>1. /\ initialized' \in BOOLEAN /\ armed' \in BOOLEAN /\ system' \in BOOLEAN /\ pend' \in Video!Settings
        /\ flushed' \subseteq Video!Fields
    BY <1>0, <1>1 DEF Video!TypeOK
  <2> QED BY <1>5, <1>6, <1>7, <1>8, <2>1 DEF Video!TypeOK, VideoPlaces, VideoCalls
<1>10. Settled'
  <2>1. \A field \in flushed' : shown'[field] = pend'[field]
    BY <1>0, <1>1 DEF Video!FlushedIsShown
  <2> QED BY <1>1, <1>7, <1>9, <2>1 DEF Settled, Video!FlushedIsShown
<1>11. Video!PacedByDeadlines'
  <2>1. OtherInterval * count <= last /\ last <= PalInterval * count
    BY <1>0, <1>1 DEF Video!PacedByDeadlines
  <2>2. OtherInterval * n = OtherInterval * count + OtherInterval /\ PalInterval * n = PalInterval * count + PalInterval
    BY <1>2 DEF n
  <2>3. OtherInterval * count \in Nat /\ PalInterval * count \in Nat
    BY <1>2
  <2>4. OtherInterval * n <= last + step /\ last + step <= PalInterval * n
    <3> DEFINE a == OtherInterval * count
               b == PalInterval * count
               c == OtherInterval * n
               d == PalInterval * n
    <3>1. a <= last /\ last <= b /\ c = a + OtherInterval /\ d = b + PalInterval /\ a \in Nat /\ b \in Nat
      BY <2>1, <2>2, <2>3
    <3> HIDE DEF a, b, c, d
    <3>2. c <= last + step /\ last + step <= d
      BY <1>2, <3>1
    <3> QED BY <3>2 DEF c, d
  <2> QED BY <1>1, <1>8, <2>4 DEF Video!PacedByDeadlines
<1> QED BY <1>5, <1>10, <1>11 DEF VideoInv

LEMMA VideoInitially == Video!VideoConstants /\ Video!Init => VideoInv
<1> SUFFICES ASSUME Video!VideoConstants, Video!Init PROVE VideoInv
  OBVIOUS
<1>1. MaxRetraces \in Nat /\ MaxNow \in Nat
  BY DEF Video!VideoConstants
<1>2. /\ ~initialized /\ initialized \in BOOLEAN /\ armed = FALSE /\ system = FALSE
      /\ pend = [format |-> 0, black |-> FALSE, buffer |-> 0] /\ shown = pend
      /\ count = 0 /\ last = 0 /\ now = 0 /\ asleep = {} /\ calls = <<>> /\ flushed = Video!Fields
      /\ word = [format |-> 0, buffer |-> 0, hardware |-> 0, count |-> 0, pre |-> "none", post |-> "none"]
      /\ call = [t \in Callers |-> Video!Outside]
  BY DEF Video!Init
<1>3. pend \in Video!Settings /\ Video!Outside \in VideoPlaces /\ Video!Outside.at = "outside"
  BY <1>1, <1>2 DEF Video!Settings, Video!Formats, Video!Outside, VideoPlaces, Video!Places
<1>4. call \in [Callers -> VideoPlaces] /\ calls \in Seq(VideoCalls) /\ DOMAIN calls = {}
  BY <1>2, <1>3
<1>5. word \in [format : Video!Formats, buffer : Buffers \cup {0}, hardware : Buffers \cup {0},
                count : 0 .. MaxRetraces, pre : Video!Callbacks, post : Video!Callbacks]
  BY <1>1, <1>2 DEF Video!Formats, Video!Callbacks
<1>6. Video!TypeOK
  <2>1. count \in 0 .. MaxRetraces /\ last \in Nat /\ now \in 0 .. MaxNow
    BY <1>1, <1>2
  <2>2. initialized \in BOOLEAN /\ armed \in BOOLEAN /\ system \in BOOLEAN /\ asleep \subseteq Callers /\ flushed \subseteq Video!Fields
    BY <1>2
  <2>3. shown \in Video!Settings
    BY <1>2, <1>3
  <2> QED BY <1>3, <1>4, <1>5, <2>1, <2>2, <2>3 DEF Video!TypeOK, VideoPlaces, VideoCalls
<1>7. Settled
  BY <1>2, <1>6 DEF Settled, Video!FlushedIsShown
<1>8. Numbered
  BY <1>2, <1>3, <1>4 DEF Numbered, Served, Inside, Video!CallbacksNumbered
<1> QED BY <1>2, <1>7, <1>8 DEF VideoInv, Video!PacedByDeadlines

LEMMA VideoStep == Video!VideoConstants /\ VideoInv /\ [Video!Next]_(Video!vars) => VideoInv'
<1> SUFFICES ASSUME Video!VideoConstants, VideoInv, [Video!Next]_(Video!vars) PROVE VideoInv'
  OBVIOUS
<1>1. CASE UNCHANGED Video!vars
  <2>1. UNCHANGED <<initialized, pend, shown, armed, count, last, now, word, system, asleep, call, flushed, calls>>
    BY <1>1 DEF Video!vars
  <2>2. Numbered'
    BY <2>1, NumberedStays DEF VideoInv
  <2>3. Video!TypeOK'
    BY <2>1 DEF VideoInv, Settled, Video!FlushedIsShown, Video!TypeOK
  <2> QED BY <2>1, <2>2, <2>3 DEF VideoInv, Settled, Video!FlushedIsShown, Video!PacedByDeadlines
<1> QED BY <1>1, SettingsKeepVideo, SurroundingsKeepVideo, TimePasses, LaterStepsKeepVideo, RetraceKeepsVideo DEF Video!Next

\* What retraces and settings keep, for any number of threads and frame buffers.
THEOREM VideoInvariant == Video!Spec => []VideoInv
<1>1. Video!Init => VideoInv
  BY VideoInitially, VideoAssumption
<1>2. VideoInv /\ [Video!Next]_(Video!vars) => VideoInv'
  BY VideoStep, VideoAssumption
<1> QED BY <1>1, <1>2, PTL DEF Video!Spec

\* However threads mix settings, flushes and retraces, what was flushed and not set again
\* is shown once the flush has been served (vi_init_hle_bridge.cpp).
THEOREM FlushesShown == Video!Spec => []FlushedIsShown
<1>1. VideoInv => FlushedIsShown
  BY DEF FlushedIsShown, VideoInv, Settled
<1> QED BY <1>1, VideoInvariant, PTL

\* However many retraces other threads serve while one calls its callbacks, each is called
\* once, in order, and the first of them with the retrace's own number.
THEOREM NumbersRight == Video!Spec => []CallbacksNumbered
<1>1. VideoInv => CallbacksNumbered
  BY DEF CallbacksNumbered, VideoInv, Numbered
<1> QED BY <1>1, VideoInvariant, PTL

\* Over any number of retraces and whatever formats they are served in, the deadline is never
\* ahead of the clock, and each retrace moves it by one interval of some format.
THEOREM DeadlinesKept == Video!Spec => []PacedByDeadlines
<1>1. VideoInv => PacedByDeadlines
  BY DEF PacedByDeadlines, VideoInv
<1> QED BY <1>1, VideoInvariant, PTL
=============================================================================
