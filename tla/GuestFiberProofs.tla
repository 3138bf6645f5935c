--------------------------- MODULE GuestFiberProofs ---------------------------
(***************************************************************************)
(* Host stacks and their records, for every set of threads and handles and *)
(* every number of records; and, as long as every created thread got a     *)
(* host stack of its own, the refinement of Coroutines.                    *)
(*                                                                         *)
(* The invariant has two levels.  Owned and Homes hold whatever is         *)
(* refused: records name different stacks, g_current_guest_thread is the   *)
(* owner of the stack that executes, and a stack that was left names its   *)
(* owner as the thread that left it, so that switch_to, when it continues  *)
(* there, finds the owner confirmed.  Apart holds while nothing was        *)
(* refused: every stack then holds the frames of its owner alone.          *)
(***************************************************************************)
EXTENDS GuestFiber, SequenceTheorems, TLAPS

\* Every record owns a host stack that exists, and no two records share one.
Owned ==
  /\ \A t \in Recorded : records[t].host \in allocated
  /\ \A t, u \in Recorded : records[t].host = records[u].host => t = u
  /\ host \in allocated /\ SchedulerHost \in allocated

Homes ==
  /\ frames[host] # <<>> /\ frames[SchedulerHost] # <<>>
  /\ \A t \in Recorded :
       IF records[t].host = host THEN gcurrent = t
       ELSE frames[records[t].host] = <<>> \/ Last(frames[records[t].host]).previous = t
  /\ gcurrent = NoThread => host = SchedulerHost
  /\ gcurrent = NoThread /\ InGuest => running \notin Recorded
  /\ InGuest => running \in live

\* Only the frames of thread t are on the host stack h.
Alone(h, t) == Len(frames[h]) = 1 /\ Last(frames[h]).thread = t

Apart ==
  /\ live \ {DefaultThread} \subseteq Recorded
  /\ \A t \in Recorded :
       IF frames[records[t].host] = <<>> THEN records[t].saved = Fresh(t)
       ELSE Alone(records[t].host, t)
  /\ DefaultThread \in Recorded <=> gcurrent # NoThread
  /\ gcurrent = NoThread => Alone(SchedulerHost, DefaultThread)
  /\ InGuest => IF gcurrent = NoThread THEN running = DefaultThread
                ELSE running = gcurrent /\ running \in Recorded /\ records[running].host = host

\* The boundaries SelectThread can meet.
Boundaries ==
  /\ fault \in {"SELECTTHREAD_REGISTER_MAIN_FIBER", "INDIRECT_JUMP_MISS"} => gcurrent = NoThread
  /\ fault = "INDIRECT_JUMP_MISS" => running = DefaultThread
  /\ fault = "SELECTTHREAD_REGISTER_MAIN_FIBER" => ~RecordFree

IInv ==
  /\ TypeOK
  /\ Owned
  /\ Homes
  /\ InterruptFlagMirrored
  /\ ~refused => Apart /\ Boundaries

-----------------------------------------------------------------------------
(* Stacks of frames.                                                       *)

SetLast(s, f) == [s EXCEPT ![Len(s)] = f]

LEMMA LastSet ==
  ASSUME NEW S, NEW s \in Seq(S), s # <<>>, NEW f \in S
  PROVE  /\ SetLast(s, f) \in Seq(S) /\ SetLast(s, f) # <<>>
         /\ Len(SetLast(s, f)) = Len(s) /\ Last(SetLast(s, f)) = f
         /\ Last(s) \in S
<1>1. Len(s) \in Nat /\ Len(s) # 0
  BY EmptySeq
<1>2. Len(s) \in 1 .. Len(s)
  BY <1>1
<1>3. /\ SetLast(s, f) \in Seq(S) /\ Len(SetLast(s, f)) = Len(s)
      /\ SetLast(s, f)[Len(s)] = f
  BY <1>2, ExceptSeq DEF SetLast
<1>4. s[Len(s)] \in S
  BY <1>2, ElementOfSeq
<1> QED BY <1>1, <1>3, <1>4, EmptySeq DEF Last

LEMMA OneFrame ==
  ASSUME NEW S, NEW f \in S
  PROVE  <<f>> \in Seq(S) /\ <<f>> # <<>> /\ Len(<<f>>) = 1 /\ Last(<<f>>) = f
BY DEF Last

LEMMA FrameTypes ==
  ASSUME TypeOK, NEW t \in Threads
  PROVE  /\ Fresh(t) \in Registers /\ Active(t) \in Frames
         /\ \A p \in Threads \cup {NoThread}, b \in BOOLEAN : Frame(t, p, cpu, b) \in Frames
<1>1. Fresh(t) \in Registers
  BY ConstantsAssumption DEF Fresh, Registers
<1> QED BY <1>1 DEF Active, Frame, Frames, TypeOK

-----------------------------------------------------------------------------
(* What a switch leaves behind.  The thread that is left is in its record: *)
(* SelectThread registered it, or g_current_guest_thread names it.         *)

RecordsThen ==
  IF NeedsRegistration
  THEN [records EXCEPT ![running] = [host |-> SchedulerHost, saved |-> cpu]]
  ELSE records

Left == IF NeedsRegistration THEN running ELSE gcurrent

RecordsKept ==
  IF Has(RecordsThen, Left) THEN [RecordsThen EXCEPT ![Left].saved = cpu] ELSE RecordsThen

\* The outcome of SwitchFiber that does not abort, without the machine it is computed on.
Switched(t) ==
  LET h == records[t].host
  IN  /\ records' = RecordsKept
      /\ gcurrent' = t
      /\ host' = h
      /\ cpu' = IF h # host /\ frames[h] = <<>> THEN Fresh(t) ELSE RecordsKept[t].saved
      /\ frames' = IF h = host THEN frames
                   ELSE [frames EXCEPT
                           ![host] = SetLast(frames[host], Frame(Executing, Left, cpu, irq)),
                           ![h] = IF frames[h] = <<>> THEN <<Active(t)>>
                                  ELSE SetLast(frames[h], Active(Last(frames[h]).thread))]
      /\ irq' = IF h = host THEN irq
                ELSE IF frames[h] = <<>> THEN FALSE ELSE Last(frames[h]).irqState
      /\ flag' = [flag EXCEPT ![running] = FALSE, ![t] = irq']
      /\ fault' = fault

LEMMA Kept ==
  ASSUME TypeOK
  PROVE  /\ RecordsKept \in [Threads -> [host : Hosts, saved : Registers] \cup {NoRecord}]
         /\ \A u \in Threads :
              RecordsKept[u] # NoRecord <=> u \in Recorded \/ (NeedsRegistration /\ u = running)
         /\ \A u \in Recorded :
              /\ RecordsKept[u].host = records[u].host
              /\ RecordsKept[u].saved = IF u = gcurrent THEN cpu ELSE records[u].saved
         /\ NeedsRegistration => RecordsKept[running] = [host |-> SchedulerHost, saved |-> cpu]
<1> DEFINE R == [host : Hosts, saved : Registers]
<1>1. /\ records \in [Threads -> R \cup {NoRecord}] /\ running \in Threads
      /\ cpu \in Registers /\ gcurrent \in Threads \cup {NoThread}
      /\ SchedulerHost \in Hosts /\ NoRecord \notin R /\ NoThread \notin Threads
  BY ConstantsAssumption DEF TypeOK
<1>2. Recorded = {u \in Threads : records[u] # NoRecord}
  BY <1>1 DEF Recorded, Has
<1>3. CASE NeedsRegistration
  <2> DEFINE r == [host |-> SchedulerHost, saved |-> cpu]
  <2>1. r \in R /\ r # NoRecord /\ [r EXCEPT !.saved = cpu] = r
    BY <1>1
  <2>2. RecordsThen = [records EXCEPT ![running] = r] /\ Left = running
    BY <1>3 DEF RecordsThen, Left
  <2>3. RecordsThen \in [Threads -> R \cup {NoRecord}] /\ RecordsThen[running] = r
    BY <1>1, <2>1, <2>2
  <2>4. Has(RecordsThen, Left)
    BY <1>1, <2>1, <2>2, <2>3 DEF Has
  <2>5. RecordsKept = RecordsThen
    BY <1>1, <2>1, <2>2, <2>3, <2>4 DEF RecordsKept
  <2>6. gcurrent = NoThread /\ running \notin Recorded
    BY <1>3 DEF NeedsRegistration, Recorded
  <2> QED BY <1>1, <1>2, <1>3, <2>1, <2>2, <2>3, <2>5, <2>6
<1>4. CASE ~NeedsRegistration
  <2>1. RecordsThen = records /\ Left = gcurrent
    BY <1>4 DEF RecordsThen, Left
  <2>2. CASE Has(records, gcurrent)
    <3>1. gcurrent \in Threads /\ records[gcurrent] \in R
      BY <1>1, <2>2 DEF Has
    <3>2. RecordsKept = [records EXCEPT ![gcurrent].saved = cpu]
      BY <2>1, <2>2 DEF RecordsKept
    <3>3. [records[gcurrent] EXCEPT !.saved = cpu] \in R
      BY <1>1, <3>1
    <3>4. RecordsKept \in [Threads -> R \cup {NoRecord}]
      BY <1>1, <3>1, <3>2, <3>3
    <3>5. \A u \in Threads : u # gcurrent => RecordsKept[u] = records[u]
      BY <1>1, <3>2
    <3>6. RecordsKept[gcurrent] = [records[gcurrent] EXCEPT !.saved = cpu]
      BY <1>1, <3>1, <3>2
    <3>7. /\ RecordsKept[gcurrent].host = records[gcurrent].host
          /\ RecordsKept[gcurrent].saved = cpu /\ RecordsKept[gcurrent] # NoRecord
          /\ records[gcurrent] # NoRecord
      BY <1>1, <3>1, <3>3, <3>6
    <3> QED BY <1>2, <1>4, <3>1, <3>4, <3>5, <3>7
  <2>3. CASE ~Has(records, gcurrent)
    <3>1. RecordsKept = records
      BY <2>1, <2>3 DEF RecordsKept
    <3>2. gcurrent \notin Recorded
      BY <2>3 DEF Recorded
    <3> QED BY <1>1, <1>2, <1>4, <3>1, <3>2
  <2> QED BY <2>2, <2>3
<1> QED BY <1>3, <1>4

LEMMA SwitchFiberDone ==
  ASSUME TypeOK, Owned, Homes, InGuest, NEW t \in Recorded, SwitchFiber(t), InGuest'
  PROVE  Switched(t)
<1> DEFINE m == IF NeedsRegistration THEN Registered(Machine) ELSE Machine
           n == SwitchTo(m, t)
           h == records[t].host
           loaded == TargetLoaded(m, t)
           left == Suspended(loaded, m.gcurrent, m.cpu, irq)
<1>1. /\ records \in [Threads -> [host : Hosts, saved : Registers] \cup {NoRecord}]
      /\ running \in Threads /\ cpu \in Registers /\ gcurrent \in Threads \cup {NoThread}
      /\ frames \in [Hosts -> Seq(Frames)] /\ host \in Hosts /\ t \in Threads
      /\ records[t] # NoRecord /\ h \in Hosts
  BY DEF TypeOK, Recorded, Has
<1>2. m = [cpu |-> cpu, records |-> RecordsThen, gcurrent |-> Left, host |-> host,
           frames |-> frames]
  <2>1. CASE NeedsRegistration
    BY <2>1 DEF Registered, Machine, RecordsThen, Left
  <2>2. CASE ~NeedsRegistration
    BY <2>2 DEF Machine, RecordsThen, Left
  <2> QED BY <2>1, <2>2
<1>3. m.records[t].host = h
  <2>1. NeedsRegistration => t # running
    BY DEF NeedsRegistration, Recorded
  <2> QED BY <1>1, <1>2, <2>1 DEF RecordsThen
<1>4. loaded = [cpu |-> RecordsKept[t].saved, records |-> RecordsKept, gcurrent |-> t,
                host |-> host, frames |-> frames]
  <2>1. loaded = [m EXCEPT !.records = RecordsKept, !.gcurrent = t, !.cpu = RecordsKept[t].saved]
    <3> HIDE DEF m
    <3>1. m.cpu = cpu /\ m.records = RecordsThen /\ m.gcurrent = Left
      BY <1>2
    <3> QED BY <3>1 DEF TargetLoaded, RecordsKept
  <2> HIDE DEF loaded, m
  <2> QED BY <1>2, <2>1
<1>5. Become(n) /\ irq' = InterruptsAfter(n) /\ fault' = fault
      /\ flag' = [flag EXCEPT ![running] = FALSE, ![t] = InterruptsAfter(n)]
  BY DEF SwitchFiber, InGuest
<1>6. h # host => h \in Hosts /\ (frames[h] = <<>> \/ Last(frames[h]).previous = t)
  BY <1>1 DEF Homes
<1>7. Has(RecordsKept, t)
  BY <1>1, Kept, ConstantsAssumption DEF Has
<1>8. CASE h = host
  <2>1. n = loaded
    BY <1>2, <1>3, <1>8 DEF SwitchTo
  <2> HIDE DEF n, loaded
  <2>2. InterruptsAfter(n) = irq
    BY <1>4, <2>1 DEF InterruptsAfter
  <2> QED BY <1>4, <1>5, <1>8, <2>1, <2>2 DEF Switched, Become
<1>9. CASE h # host
  <2> DEFINE s == SetLast(frames[host], Frame(Executing, Left, cpu, irq))
  <2>1. Len(frames[host]) \in DOMAIN frames[host] /\ frames[host][Len(frames[host])].thread = Executing
    <3>1. Len(frames[host]) \in Nat /\ Len(frames[host]) # 0
      BY <1>1, EmptySeq DEF Homes
    <3> QED BY <1>1, <3>1 DEF Executing, Last
  <2>2. left = [cpu |-> RecordsKept[t].saved, records |-> RecordsKept, gcurrent |-> t,
                host |-> host, frames |-> [frames EXCEPT ![host] = s]]
    <3> HIDE DEF loaded
    <3>1. left = [loaded EXCEPT !.frames = [frames EXCEPT ![host] = s]]
      BY <1>2, <1>4, <2>1 DEF Suspended, SetLast
    <3> HIDE DEF left, s
    <3> QED BY <1>4, <3>1
  <2>3. n = IF frames[h] = <<>> THEN Entered(left, t) ELSE Continued(left, t)
    BY <1>2, <1>3, <1>9 DEF SwitchTo
  <2> HIDE DEF left, h, s
  <2>4. left.records[t].host = h /\ left.frames[h] = frames[h]
    <3>1. RecordsKept[t].host = h
      BY Kept DEF h
    <3> QED BY <1>1, <1>9, <2>2, <3>1
  <2>5. CASE frames[h] = <<>>
    <3>1. n = [left EXCEPT !.host = h, !.frames[h] = <<Active(t)>>, !.cpu = Fresh(t)]
      BY <2>3, <2>4, <2>5 DEF Entered
    <3> HIDE DEF n
    <3>2. /\ n.records = RecordsKept /\ n.gcurrent = t /\ n.host = h /\ n.cpu = Fresh(t)
          /\ n.frames = [frames EXCEPT ![host] = s, ![h] = <<Active(t)>>]
      BY <2>2, <3>1
    <3>3. InterruptsAfter(n) = FALSE
      BY <1>9, <2>5, <3>2 DEF InterruptsAfter
    <3> QED BY <1>5, <1>9, <2>5, <3>2, <3>3 DEF Switched, Become, h, s
  <2>6. CASE frames[h] # <<>>
    <3> DEFINE f == Last(frames[h])
    <3>1. f.previous = t /\ Has(left.records, t)
      BY <1>6, <1>7, <1>9, <2>2, <2>6
    <3>2. n = [left EXCEPT !.host = h, !.frames[h][Len(frames[h])] = Active(f.thread),
                           !.cpu = left.records[t].saved, !.gcurrent = t]
      BY <2>3, <2>4, <2>6, <3>1 DEF Continued
    <3>3. n = [left EXCEPT !.host = h, !.frames[h] = SetLast(frames[h], Active(f.thread)),
                           !.cpu = RecordsKept[t].saved, !.gcurrent = t]
      BY <2>2, <2>4, <3>2 DEF SetLast
    <3> HIDE DEF n, f
    <3>4. /\ n.records = RecordsKept /\ n.gcurrent = t /\ n.host = h
          /\ n.cpu = RecordsKept[t].saved
          /\ n.frames = [frames EXCEPT ![host] = s, ![h] = SetLast(frames[h], Active(f.thread))]
      BY <2>2, <3>3
    <3>5. InterruptsAfter(n) = f.irqState
      BY <1>9, <2>6, <3>4 DEF InterruptsAfter, f
    <3> QED BY <1>5, <1>9, <2>6, <3>4, <3>5 DEF Switched, Become, h, s, f
  <2> QED BY <2>5, <2>6
<1> QED BY <1>8, <1>9

-----------------------------------------------------------------------------
(* A thread is created.                                                    *)

LEMMA RecordedThreads ==
  ASSUME TypeOK
  PROVE  /\ Recorded = {u \in Threads : records[u] # NoRecord}
         /\ \A u \in Recorded : records[u] \in [host : Hosts, saved : Registers]
BY ConstantsAssumption DEF Recorded, Has, TypeOK

\* What is destroyed for t, and the new stack, are nobody else's, and neither executes.
LEMMA DestroyedStacks ==
  ASSUME TypeOK, Owned, NEW t \in Threads
  PROVE  /\ Destroyed(t) \subseteq Hosts
         /\ host \notin Destroyed(t) /\ SchedulerHost \notin Destroyed(t)
         /\ \A u \in Recorded \ {t} : records[u].host \notin Destroyed(t)
         /\ \A h \in (Hosts \ allocated) \cup Destroyed(t) :
              /\ h \in Hosts /\ h # host /\ h # SchedulerHost
              /\ \A u \in Recorded \ {t} : records[u].host # h
<1>1. Has(records, t) => t \in Recorded /\ records[t].host \in Hosts
  BY RecordedThreads DEF Recorded
<1>2. Destroyed(t) = {} \/ (t \in Recorded /\ Destroyed(t) = {records[t].host}
                            /\ records[t].host \notin {SchedulerHost, host})
  BY <1>1 DEF Destroyed
<1>3. /\ Destroyed(t) \subseteq Hosts /\ host \notin Destroyed(t) /\ SchedulerHost \notin Destroyed(t)
      /\ \A u \in Recorded \ {t} : records[u].host \notin Destroyed(t)
  <2>1. CASE Destroyed(t) = {}
    BY <2>1
  <2>2. CASE t \in Recorded /\ Destroyed(t) = {records[t].host}
                           /\ records[t].host \notin {SchedulerHost, host}
    <3>1. \A u \in Recorded \ {t} : records[u].host # records[t].host
      BY <2>2 DEF Owned
    <3>2. records[t].host \in Hosts
      BY <1>1, <2>2 DEF Recorded
    <3> QED BY <2>2, <3>1, <3>2
  <2> QED BY <1>2, <2>1, <2>2
<1> QED BY <1>3 DEF Owned

\* A creation touches nothing but the thread's own record and stacks without an owner.
Creation(t) ==
  /\ records' \in [Threads -> [host : Hosts, saved : Registers] \cup {NoRecord}]
  /\ allocated' \subseteq Hosts /\ frames' \in [Hosts -> Seq(Frames)]
  /\ \A u \in Threads \ {t} : records'[u] = records[u]
  /\ \A u \in Recorded \ {t} :
       /\ records[u].host \in allocated => records[u].host \in allocated'
       /\ frames'[records[u].host] = frames[records[u].host]
  /\ \A k \in {host, SchedulerHost} : k \in allocated' /\ frames'[k] = frames[k]
  /\ \/ /\ records'[t] = NoRecord /\ refused' = TRUE
     \/ /\ records'[t].host \in allocated' \ {host, SchedulerHost}
        /\ records'[t].saved = Fresh(t) /\ records'[t] # NoRecord
        /\ \A u \in Recorded \ {t} : records[u].host # records'[t].host
        /\ frames'[records'[t].host] = <<>>
        /\ refused' = refused

LEMMA CreationDone ==
  ASSUME TypeOK, Owned, NEW t \in Threads, HostCreated(t) \/ HostRefused(t)
  PROVE  Creation(t)
<1>1. /\ records \in [Threads -> [host : Hosts, saved : Registers] \cup {NoRecord}]
      /\ allocated \subseteq Hosts /\ frames \in [Hosts -> Seq(Frames)]
      /\ host \in Hosts /\ SchedulerHost \in Hosts /\ Fresh(t) \in Registers
      /\ <<>> \in Seq(Frames)
      /\ NoRecord \notin [host : Hosts, saved : Registers]
  BY FrameTypes, ConstantsAssumption DEF TypeOK
<1>2. host \in allocated /\ SchedulerHost \in allocated
  BY DEF Owned
<1>3. \A u \in Recorded : u \in Threads /\ records[u].host \in Hosts
  BY RecordedThreads DEF Recorded
<1>4. CASE HostCreated(t)
  <2>1. PICK h \in (Hosts \ allocated) \cup Destroyed(t) :
          /\ allocated' = (allocated \ Destroyed(t)) \cup {h}
          /\ records' = [records EXCEPT ![t] = [host |-> h, saved |-> Fresh(t)]]
          /\ frames' = [k \in Hosts |-> IF k \in Destroyed(t) \cup {h} THEN <<>> ELSE frames[k]]
          /\ refused' = refused
    BY <1>4 DEF HostCreated
  <2>2. /\ h \in Hosts /\ h # host /\ h # SchedulerHost
        /\ \A u \in Recorded \ {t} : records[u].host # h
    BY DestroyedStacks
  <2> DEFINE r == [host |-> h, saved |-> Fresh(t)]
  <2>3. r \in [host : Hosts, saved : Registers] /\ r.host = h /\ r.saved = Fresh(t) /\ r # NoRecord
    BY <1>1, <2>2
  <2> HIDE DEF r
  <2>4. records' = [records EXCEPT ![t] = r]
    BY <2>1 DEF r
  <2>5. /\ records' \in [Threads -> [host : Hosts, saved : Registers] \cup {NoRecord}]
        /\ records'[t] = r /\ \A u \in Threads \ {t} : records'[u] = records[u]
    BY <1>1, <2>3, <2>4
  <2>6. allocated' \subseteq Hosts /\ frames' \in [Hosts -> Seq(Frames)]
    BY <1>1, <2>1, <2>2
  <2>7. \A u \in Recorded \ {t} :
          /\ records[u].host \in allocated => records[u].host \in allocated'
          /\ frames'[records[u].host] = frames[records[u].host]
    BY <1>3, <2>1, <2>2, DestroyedStacks
  <2>8. \A k \in {host, SchedulerHost} : k \in allocated' /\ frames'[k] = frames[k]
    BY <1>1, <1>2, <2>1, <2>2, DestroyedStacks
  <2>9. h \in allocated' /\ frames'[h] = <<>>
    BY <2>1, <2>2
  <2> QED BY <2>1, <2>2, <2>3, <2>5, <2>6, <2>7, <2>8, <2>9 DEF Creation
<1>5. CASE HostRefused(t)
  <2>1. /\ allocated' = allocated \ Destroyed(t)
        /\ records' = [records EXCEPT ![t] = NoRecord]
        /\ frames' = [k \in Hosts |-> IF k \in Destroyed(t) THEN <<>> ELSE frames[k]]
        /\ refused' = TRUE
    BY <1>5 DEF HostRefused
  <2>2. \A u \in Recorded \ {t} :
          /\ records[u].host \in allocated => records[u].host \in allocated'
          /\ frames'[records[u].host] = frames[records[u].host]
    BY <1>3, <2>1, DestroyedStacks
  <2>3. \A k \in {host, SchedulerHost} : k \in allocated' /\ frames'[k] = frames[k]
    BY <1>1, <1>2, <2>1, DestroyedStacks
  <2>4. /\ records' \in [Threads -> [host : Hosts, saved : Registers] \cup {NoRecord}]
        /\ records'[t] = NoRecord /\ \A u \in Threads \ {t} : records'[u] = records[u]
    BY <1>1, <2>1
  <2>5. allocated' \subseteq Hosts /\ frames' \in [Hosts -> Seq(Frames)]
    BY <1>1, <2>1
  <2> QED BY <2>1, <2>2, <2>3, <2>4, <2>5 DEF Creation
<1> QED BY <1>4, <1>5

LEMMA CreateThreadInv ==
  ASSUME IInv, NEW t \in Threads, CreateThread(t)
  PROVE  IInv'
<1>1. /\ TypeOK /\ Owned /\ Homes /\ InterruptFlagMirrored /\ (~refused => Apart /\ Boundaries)
  BY DEF IInv
<1>2. /\ InGuest /\ t # DefaultThread /\ t # running /\ t \notin live
      /\ live' = live \cup {t} /\ context' = [context EXCEPT ![t] = "entry"]
      /\ flag' = [flag EXCEPT ![t] = FALSE]
      /\ UNCHANGED <<running, irq, cpu, gcurrent, host, fault>>
  BY DEF CreateThread
<1>3. Creation(t)
  BY <1>1, CreationDone DEF CreateThread
<1>4. /\ Recorded = {u \in Threads : records[u] # NoRecord}
      /\ Recorded' = {u \in Threads : records'[u] # NoRecord}
  BY <1>1, RecordedThreads, ConstantsAssumption DEF Recorded, Has
<1>5. /\ Recorded' \ {t} = Recorded \ {t}
      /\ \A u \in Recorded' \ {t} : records'[u] = records[u] /\ u \in Recorded
  BY <1>3, <1>4 DEF Creation
<1>6. TypeOK'
  <2>1. refused' \in BOOLEAN
    BY <1>1, <1>3 DEF Creation, TypeOK
  <2> QED BY <1>1, <1>2, <1>3, <2>1 DEF TypeOK, Creation
<1>7. Owned'
  <2>1. ASSUME NEW u \in Recorded' PROVE records'[u].host \in allocated'
    BY <1>1, <1>3, <1>4, <1>5, <2>1 DEF Owned, Creation
  <2>2. ASSUME NEW u \in Recorded', NEW v \in Recorded', records'[u].host = records'[v].host
        PROVE  u = v
    <3>1. CASE u # t /\ v # t
      BY <1>1, <1>5, <2>2, <3>1 DEF Owned
    <3>2. CASE u = t \/ v = t
      <4>1. records'[t] # NoRecord
        BY <1>4, <2>2, <3>2
      <4> QED BY <1>3, <1>5, <2>2, <3>2, <4>1 DEF Creation
    <3> QED BY <3>1, <3>2
  <2>3. host' \in allocated' /\ SchedulerHost \in allocated'
    BY <1>2, <1>3 DEF Creation
  <2> QED BY <2>1, <2>2, <2>3 DEF Owned
<1>8. Homes'
  <2>1. frames'[host] # <<>> /\ frames'[SchedulerHost] # <<>>
    BY <1>1, <1>3 DEF Homes, Creation
  <2>2. ASSUME NEW u \in Recorded'
        PROVE  IF records'[u].host = host THEN gcurrent = u
               ELSE frames'[records'[u].host] = <<>> \/ Last(frames'[records'[u].host]).previous = u
    <3>1. CASE u = t
      BY <1>3, <1>4, <3>1 DEF Creation
    <3>2. CASE u # t
      BY <1>1, <1>3, <1>5, <3>2 DEF Homes, Creation
    <3> QED BY <3>1, <3>2
  <2>3. running' \notin Recorded \/ gcurrent # NoThread
    BY <1>1, <1>2 DEF Homes
  <2> QED BY <1>1, <1>2, <1>5, <2>1, <2>2, <2>3 DEF Homes, InGuest
<1>9. InterruptFlagMirrored'
  BY <1>1, <1>2 DEF InterruptFlagMirrored, InGuest, TypeOK
<1>10. ASSUME ~refused' PROVE Apart' /\ Boundaries'
  <2>1. /\ Apart /\ ~refused
        /\ t \in Recorded' /\ records'[t].saved = Fresh(t) /\ frames'[records'[t].host] = <<>>
        /\ records'[t].host \notin {host, SchedulerHost}
    BY <1>1, <1>3, <1>4, <1>10 DEF Creation
  <2>2. \A k \in {host, SchedulerHost} : \A u : Alone(k, u) => Alone(k, u)'
    BY <1>3 DEF Alone, Creation
  <2>3. live' \ {DefaultThread} \subseteq Recorded'
    BY <1>2, <1>5, <2>1 DEF Apart
  <2>4. ASSUME NEW u \in Recorded'
        PROVE  IF frames'[records'[u].host] = <<>> THEN records'[u].saved = Fresh(u)
               ELSE Len(frames'[records'[u].host]) = 1 /\ Last(frames'[records'[u].host]).thread = u
    <3>1. CASE u = t
      BY <2>1, <3>1
    <3>2. CASE u # t
      BY <1>3, <1>5, <2>1, <3>2 DEF Apart, Alone, Creation
    <3> QED BY <3>1, <3>2
  <2>5. (DefaultThread \in Recorded)' <=> gcurrent # NoThread
    BY <1>2, <1>5, <2>1 DEF Apart
  <2>6. gcurrent = NoThread => Alone(SchedulerHost, DefaultThread)'
    BY <2>1, <2>2 DEF Apart
  <2>7. IF gcurrent = NoThread THEN running = DefaultThread
        ELSE running = gcurrent /\ running \in Recorded' /\ records'[running].host = host
    BY <1>2, <1>5, <2>1 DEF Apart
  <2> QED BY <1>2, <2>3, <2>4, <2>5, <2>6, <2>7 DEF Apart, Alone, Boundaries, InGuest
<1> QED BY <1>6, <1>7, <1>8, <1>9, <1>10 DEF IInv

-----------------------------------------------------------------------------
(* The processor goes to a thread with a host stack.                       *)

\* Without a current thread the executing stack is the bootstrap's and nobody's yet.
LEMMA Registering ==
  ASSUME TypeOK, Homes, InGuest
  PROVE  /\ NeedsRegistration <=> gcurrent = NoThread
         /\ NeedsRegistration => /\ host = SchedulerHost /\ running \notin Recorded
                                 /\ \A u \in Recorded : records[u].host # host
         /\ Left \in Threads /\ Left = IF NeedsRegistration THEN running ELSE gcurrent
<1>1. running \in Threads /\ gcurrent \in Threads \cup {NoThread} /\ NoThread \notin Threads
  BY ConstantsAssumption DEF TypeOK
<1>2. Recorded \subseteq Threads /\ (Has(records, running) <=> running \in Recorded)
  BY <1>1 DEF Recorded
<1>3. NeedsRegistration <=> gcurrent = NoThread
  BY <1>2 DEF Homes, NeedsRegistration
<1>4. NeedsRegistration => /\ host = SchedulerHost /\ running \notin Recorded
                           /\ \A u \in Recorded : records[u].host # host
  BY <1>1, <1>2, <1>3 DEF Homes
<1> QED BY <1>1, <1>3, <1>4 DEF Left

\* The stack that is left and the one that continues; all others are as they were.
LEMMA SwitchedStacks ==
  ASSUME TypeOK, Homes, InGuest, NEW t \in Recorded, Switched(t)
  PROVE  LET h == records[t].host
         IN  /\ h \in Hosts /\ frames' \in [Hosts -> Seq(Frames)]
             /\ \A k \in Hosts \ {host, h} : frames'[k] = frames[k]
             /\ h = host => frames' = frames
             /\ h # host =>
                  /\ frames'[host] # <<>> /\ Len(frames'[host]) = Len(frames[host])
                  /\ Last(frames'[host]) = Frame(Executing, Left, cpu, irq)
                  /\ IF frames[h] = <<>> THEN frames'[h] = <<Active(t)>>
                     ELSE /\ frames'[h] # <<>> /\ Len(frames'[h]) = Len(frames[h])
                          /\ Last(frames'[h]) = Active(Last(frames[h]).thread)
<1> DEFINE h == records[t].host
           left == SetLast(frames[host], Frame(Executing, Left, cpu, irq))
           entered == IF frames[h] = <<>> THEN <<Active(t)>>
                      ELSE SetLast(frames[h], Active(Last(frames[h]).thread))
<1>1. /\ t \in Threads /\ h \in Hosts /\ host \in Hosts /\ frames \in [Hosts -> Seq(Frames)]
      /\ irq \in BOOLEAN
  BY RecordedThreads DEF TypeOK, Recorded
<1>2. \A f \in Frames : f.thread \in Threads
  BY DEF Frames
<1>3. Frame(Executing, Left, cpu, irq) \in Frames
  <2>1. Last(frames[host]) \in Frames
    BY <1>1, LastSet DEF Homes
  <2> QED BY <1>1, <1>2, <2>1, FrameTypes, Registering DEF Executing
<1>4. /\ left \in Seq(Frames) /\ left # <<>> /\ Len(left) = Len(frames[host])
      /\ Last(left) = Frame(Executing, Left, cpu, irq)
  BY <1>1, <1>3, LastSet DEF Homes
<1>5. /\ entered \in Seq(Frames) /\ entered # <<>>
      /\ IF frames[h] = <<>> THEN entered = <<Active(t)>>
         ELSE Len(entered) = Len(frames[h]) /\ Last(entered) = Active(Last(frames[h]).thread)
  <2>1. CASE frames[h] = <<>>
    BY <1>1, <2>1, FrameTypes, OneFrame
  <2>2. CASE frames[h] # <<>>
    <3>1. Last(frames[h]) \in Frames
      BY <1>1, <2>2, LastSet, FrameTypes
    <3>2. Active(Last(frames[h]).thread) \in Frames
      BY <1>2, <3>1, FrameTypes
    <3>3. frames[h] \in Seq(Frames)
      BY <1>1
    <3> DEFINE s == frames[h]
               f == Active(Last(s).thread)
    <3>4. SetLast(s, f) \in Seq(Frames) /\ SetLast(s, f) # <<>> /\ Len(SetLast(s, f)) = Len(s)
          /\ Last(SetLast(s, f)) = f
      <4> HIDE DEF f
      <4> QED BY <2>2, <3>2, <3>3, LastSet DEF f
    <3> QED BY <2>2, <3>4
  <2> QED BY <2>1, <2>2
<1>6. frames' = IF h = host THEN frames ELSE [frames EXCEPT ![host] = left, ![h] = entered]
  BY DEF Switched
<1> HIDE DEF h, left, entered
<1>7. h # host => frames'[host] = left /\ frames'[h] = entered
  BY <1>1, <1>6
<1>8. frames' \in [Hosts -> Seq(Frames)] /\ \A k \in Hosts \ {host, h} : frames'[k] = frames[k]
  BY <1>1, <1>4, <1>5, <1>6
<1> QED BY <1>1, <1>4, <1>5, <1>6, <1>7, <1>8 DEF h

LEMMA SwitchedInv ==
  ASSUME IInv, InGuest, NEW t \in live, t \in Recorded, Switched(t), running' = t,
         live' \in {live} \cup (IF t = running THEN {} ELSE {live \ {running}}),
         context' = [context EXCEPT ![running] = "interior"], UNCHANGED <<allocated, refused>>
  PROVE  IInv'
<1> DEFINE h == records[t].host
<1>1. /\ TypeOK /\ Owned /\ Homes /\ InterruptFlagMirrored /\ (~refused => Apart /\ Boundaries)
  BY DEF IInv
<1>2. /\ t \in Threads /\ running \in Threads /\ host \in Hosts /\ h \in Hosts
      /\ t # NoThread /\ Recorded \subseteq Threads /\ SchedulerHost \in Hosts
      /\ live' \subseteq live /\ t \in live'
  BY <1>1, RecordedThreads, ConstantsAssumption DEF TypeOK, Recorded
<1>3. /\ records' = RecordsKept /\ gcurrent' = t /\ host' = h /\ fault' = fault
      /\ flag' = [flag EXCEPT ![running] = FALSE, ![t] = irq']
  BY DEF Switched
<1>4. /\ Recorded' = {u \in Threads : RecordsKept[u] # NoRecord}
      /\ Recorded' = Recorded \cup (IF NeedsRegistration THEN {running} ELSE {})
  <2>1. Recorded' = {u \in Threads : RecordsKept[u] # NoRecord}
    BY <1>3, ConstantsAssumption DEF Recorded, Has
  <2> QED BY <1>1, <1>2, <2>1, Kept
<1>5. /\ \A u \in Recorded : RecordsKept[u].host = records[u].host
      /\ NeedsRegistration => RecordsKept[running].host = SchedulerHost
      /\ RecordsKept[t].saved \in Registers
  <2>1. RecordsKept[t] \in [host : Hosts, saved : Registers]
    BY <1>1, <1>2, <1>4, Kept
  <2> QED BY <1>1, <2>1, Kept
<1>6. TypeOK'
  <2>1. cpu' \in Registers
    BY <1>1, <1>2, <1>5, FrameTypes DEF Switched
  <2>2. irq' \in BOOLEAN
    <3>1. frames[h] # <<>> => Last(frames[h]) \in Frames
      <4>1. frames[h] \in Seq(Frames) /\ Active(t) \in Frames
        BY <1>1, <1>2, FrameTypes DEF TypeOK
      <4> QED BY <4>1, LastSet
    <3>2. frames[h] # <<>> => Last(frames[h]).irqState \in BOOLEAN
      BY <3>1 DEF Frames
    <3> QED BY <1>1, <3>2 DEF Switched, TypeOK
  <2>3. flag' \in [Threads -> BOOLEAN] /\ context' \in [Threads -> {"entry", "interior"}]
    BY <1>1, <1>2, <1>3, <2>2 DEF TypeOK
  <2>4. frames' \in [Hosts -> Seq(Frames)]
    BY <1>1, SwitchedStacks
  <2>5. records' \in [Threads -> [host : Hosts, saved : Registers] \cup {NoRecord}]
    BY <1>1, <1>3, Kept
  <2> QED BY <1>1, <1>2, <1>3, <2>1, <2>2, <2>3, <2>4, <2>5 DEF TypeOK
<1>7. Owned'
  <2>1. \A u \in Recorded : records'[u].host = records[u].host
    BY <1>3, <1>5
  <2>2. NeedsRegistration => /\ records'[running].host = SchedulerHost
                             /\ \A u \in Recorded : records'[u].host # SchedulerHost
    BY <1>1, <1>3, <1>5, <2>1, Registering
  <2> QED BY <1>1, <1>3, <1>4, <2>1, <2>2 DEF Owned
<1>8. Homes'
  <2>1. frames'[h] # <<>> /\ frames'[host] # <<>>
    <3>1. frames[host] # <<>> /\ (h = host => frames' = frames)
      BY <1>1, <1>2, SwitchedStacks DEF Homes
    <3>2. h # host => /\ frames'[host] # <<>>
                      /\ frames'[h] = <<Active(t)>> \/ frames'[h] # <<>>
      BY <1>1, <1>2, SwitchedStacks
    <3>3. <<Active(t)>> # <<>>
      OBVIOUS
    <3> QED BY <3>1, <3>2, <3>3
  <2>2. frames'[SchedulerHost] # <<>>
    BY <1>1, <1>2, <2>1, SwitchedStacks DEF Homes
  <2>3. ASSUME NEW u \in Recorded'
        PROVE  IF records'[u].host = h THEN t = u
               ELSE frames'[records'[u].host] = <<>> \/ Last(frames'[records'[u].host]).previous = u
    <3>1. CASE records'[u].host = h
      BY <1>3, <1>4, <1>5, <1>7, <3>1 DEF Owned
    <3>2. CASE records'[u].host # h /\ records'[u].host = host
      <4>1. Left = u
        BY <1>1, <1>3, <1>4, <1>5, <3>2, Registering DEF Homes
      <4>2. Last(frames'[host]).previous = Left
        BY <1>1, <3>2, SwitchedStacks DEF Frame
      <4> QED BY <3>2, <4>1, <4>2
    <3>3. CASE records'[u].host \notin {h, host}
      <4>1. u \in Recorded /\ records'[u].host = records[u].host /\ records[u].host \in Hosts
        BY <1>1, <1>3, <1>4, <1>5, <3>3, Registering, RecordedThreads
      <4>2. frames'[records[u].host] = frames[records[u].host]
        BY <1>1, <3>3, <4>1, SwitchedStacks
      <4> QED BY <1>1, <3>3, <4>1, <4>2 DEF Homes
    <3> QED BY <3>1, <3>2, <3>3
  <2> QED BY <1>2, <1>3, <2>1, <2>2, <2>3 DEF Homes
<1>9. InterruptFlagMirrored'
  BY <1>1, <1>2, <1>3 DEF InterruptFlagMirrored, TypeOK
<1>10. ASSUME ~refused PROVE Apart' /\ Boundaries'
  <2>1. Apart
    BY <1>1, <1>10
  <2>2. NeedsRegistration => running = DefaultThread
    BY <1>1, <2>1, Registering DEF Apart
  <2>3. live' \ {DefaultThread} \subseteq Recorded'
    BY <1>2, <1>4, <2>1 DEF Apart
  <2>4. DefaultThread \in Recorded'
    BY <1>1, <1>4, <2>1, <2>2, Registering DEF Apart
  <2>5. ASSUME NEW u \in Recorded'
        PROVE  IF frames'[records'[u].host] = <<>> THEN records'[u].saved = Fresh(u)
               ELSE Len(frames'[records'[u].host]) = 1 /\ Last(frames'[records'[u].host]).thread = u
    <3>1. CASE records'[u].host = h
      <4>1. u = t
        BY <1>3, <1>4, <1>5, <1>7, <3>1 DEF Owned
      <4>2. frames[h] # <<>> => Alone(h, t)
        BY <2>1 DEF Apart
      <4>3. CASE h = host
        BY <1>1, <3>1, <4>1, <4>2, <4>3, SwitchedStacks DEF Homes, Alone
      <4>4. CASE h # host /\ frames[h] = <<>>
        <5>1. frames'[h] = <<Active(t)>>
          BY <1>1, <4>4, SwitchedStacks
        <5>2. Active(t) \in Frames /\ Active(t).thread = t
          BY <1>1, <1>2, FrameTypes DEF Active, Frame
        <5> QED BY <3>1, <4>1, <5>1, <5>2, OneFrame
      <4>5. CASE h # host /\ frames[h] # <<>>
        <5>1. /\ frames'[h] # <<>> /\ Len(frames'[h]) = 1
              /\ Last(frames'[h]) = Active(t)
          BY <1>1, <4>2, <4>5, SwitchedStacks DEF Alone
        <5> QED BY <3>1, <4>1, <5>1 DEF Active, Frame
      <4> QED BY <4>3, <4>4, <4>5
    <3>2. CASE records'[u].host # h /\ records'[u].host = host
      <4>1. Alone(host, u)
        <5>1. CASE u \in Recorded
          BY <1>1, <1>3, <1>5, <2>1, <3>2, <5>1 DEF Apart, Homes
        <5>2. CASE u \notin Recorded
          BY <1>1, <1>4, <2>1, <2>2, <5>2, Registering DEF Apart
        <5> QED BY <5>1, <5>2
      <4>2. /\ frames'[host] # <<>> /\ Len(frames'[host]) = Len(frames[host])
            /\ Last(frames'[host]).thread = Executing
        BY <1>1, <3>2, SwitchedStacks DEF Frame
      <4> QED BY <3>2, <4>1, <4>2 DEF Alone, Executing
    <3>3. CASE records'[u].host \notin {h, host}
      <4>1. u \in Recorded /\ records'[u].host = records[u].host /\ records[u].host \in Hosts
        BY <1>1, <1>3, <1>4, <1>5, <3>3, Registering, RecordedThreads
      <4>2. frames'[records[u].host] = frames[records[u].host]
        BY <1>1, <3>3, <4>1, SwitchedStacks
      <4>3. u # gcurrent
        BY <1>2, <2>1, <3>3, <4>1, ConstantsAssumption DEF Apart
      <4>4. records'[u].saved = records[u].saved
        BY <1>1, <1>3, <4>1, <4>3, Kept
      <4> QED BY <2>1, <4>1, <4>2, <4>4 DEF Apart, Alone
    <3> QED BY <3>1, <3>2, <3>3
  <2>6. running' \in Recorded' /\ records'[running'].host = host'
    BY <1>3, <1>4, <1>5
  <2> QED BY <1>2, <1>3, <2>3, <2>4, <2>5, <2>6 DEF Apart, Alone, Boundaries, InGuest
<1> QED BY <1>6, <1>7, <1>8, <1>9, <1>10 DEF IInv

-----------------------------------------------------------------------------
(* Every other step keeps the invariant.                                   *)

\* A boundary is met: nothing but the guest's words and the fault changes.
LEMMA AbortedInv ==
  ASSUME IInv, fault' \in Faults \ {"none"}, ~refused => Boundaries',
         flag' = flag, irq' = irq, running' \in Threads, live' \subseteq live,
         context' \in [Threads -> {"entry", "interior"}],
         UNCHANGED <<fiberVars, allocated, refused>>
  PROVE  IInv'
<1>1. /\ TypeOK /\ Owned /\ Homes /\ (~refused => Apart)
  BY DEF IInv
<1>2. Recorded' = Recorded
  BY DEF Recorded, Has, fiberVars
<1>3. TypeOK'
  BY <1>1 DEF TypeOK, fiberVars
<1>4. Owned' /\ InterruptFlagMirrored'
  BY <1>1, <1>2 DEF Owned, InterruptFlagMirrored, InGuest, fiberVars
<1>5. Homes'
  BY <1>1, <1>2 DEF Homes, InGuest, fiberVars
<1>6. ~refused => Apart'
  BY <1>1, <1>2 DEF Apart, Alone, InGuest, fiberVars
<1> QED BY <1>3, <1>4, <1>5, <1>6 DEF IInv

LEMMA SelectThreadInv ==
  ASSUME IInv, NEW t \in Threads, SelectThread(t)
  PROVE  IInv'
<1>1. /\ TypeOK /\ Owned /\ Homes /\ InterruptFlagMirrored /\ (~refused => Apart /\ Boundaries)
  BY DEF IInv
<1>2. /\ InGuest /\ t \in live /\ running' = t
      /\ live' \in {live} \cup (IF t = running THEN {} ELSE {live \ {running}})
      /\ context' = [context EXCEPT ![running] = "interior"] /\ UNCHANGED <<allocated, refused>>
      /\ (t \in Recorded => SwitchFiber(t)) /\ (t \notin Recorded => LoadContext(t))
  BY DEF SelectThread, Recorded
<1>3. /\ running \in Threads /\ live' \subseteq live /\ t \in live'
      /\ context' \in [Threads -> {"entry", "interior"}]
  BY <1>1, <1>2 DEF TypeOK
<1>4. CASE t \in Recorded /\ InGuest'
  BY <1>1, <1>2, <1>4, SwitchFiberDone, SwitchedInv
<1>5. CASE t \in Recorded /\ ~InGuest'
  <2>1. /\ NeedsRegistration /\ (host # SchedulerHost \/ ~RecordAvailable(running))
        /\ fault' = "SELECTTHREAD_REGISTER_MAIN_FIBER" /\ UNCHANGED <<fiberVars, irq, flag>>
    BY <1>2, <1>5 DEF SwitchFiber, InGuest
  <2>2. gcurrent = NoThread /\ ~RecordFree
    BY <1>1, <1>2, <2>1, Registering DEF RecordAvailable
  <2>3. Boundaries'
    BY <2>1, <2>2 DEF Boundaries, RecordFree, Recorded, Has, fiberVars
  <2> QED BY <1>2, <1>3, <2>1, <2>3, AbortedInv DEF Faults
<1>6. CASE t \notin Recorded /\ t # running /\ context[t] = "entry"
  <2>1. /\ cpu' = Fresh(t)
        /\ frames' = [frames EXCEPT ![host] = Append(frames[host], Active(t))]
        /\ irq' = FALSE /\ flag' = [flag EXCEPT ![running] = FALSE, ![t] = FALSE]
        /\ UNCHANGED <<records, gcurrent, host, fault>>
    BY <1>2, <1>6 DEF LoadContext
  <2>2. refused
    \* Without a refusal the only thread without a stack is the default thread, before it
    \* ever switched, and then it runs.
    BY <1>1, <1>2, <1>6 DEF Apart
  <2>3. Recorded' = Recorded
    BY <2>1 DEF Recorded, Has
  <2>4. /\ frames' \in [Hosts -> Seq(Frames)] /\ frames'[host] # <<>>
        /\ \A k \in Hosts \ {host} : frames'[k] = frames[k]
    <3>1. /\ Active(t) \in Frames /\ frames \in [Hosts -> Seq(Frames)] /\ host \in Hosts
      BY <1>1, FrameTypes DEF TypeOK
    <3>2. /\ Append(frames[host], Active(t)) \in Seq(Frames)
          /\ Len(Append(frames[host], Active(t))) = Len(frames[host]) + 1
          /\ Len(frames[host]) \in Nat
      BY <3>1, AppendProperties
    <3>3. Append(frames[host], Active(t)) # <<>>
      <4> DEFINE longer == Append(frames[host], Active(t))
      <4>1. Len(longer) # 0 /\ longer \in Seq(Frames)
        BY <3>2
      <4> HIDE DEF longer
      <4>2. longer # <<>>
        BY <4>1, EmptySeq
      <4> QED BY <4>2 DEF longer
    <3> QED BY <2>1, <3>1, <3>2, <3>3
  <2>5. TypeOK'
    BY <1>1, <1>2, <1>3, <2>1, <2>4, FrameTypes DEF TypeOK
  <2>6. Owned'
    BY <1>1, <1>2, <2>1, <2>3 DEF Owned
  <2>7. Homes'
    <3>1. frames'[host] # <<>> /\ frames'[SchedulerHost] # <<>>
      BY <1>1, <2>4, ConstantsAssumption DEF Homes
    <3>2. ASSUME NEW u \in Recorded, records[u].host # host
          PROVE  frames'[records[u].host] = frames[records[u].host]
      BY <1>1, <2>4, <3>2, RecordedThreads
    <3> QED BY <1>1, <1>2, <1>3, <1>6, <2>1, <2>3, <3>1, <3>2 DEF Homes
  <2>8. InterruptFlagMirrored'
    BY <1>1, <1>2, <2>1 DEF InterruptFlagMirrored, TypeOK
  <2> QED BY <1>2, <2>2, <2>5, <2>6, <2>7, <2>8 DEF IInv
<1>7. CASE t \notin Recorded /\ ~(t # running /\ context[t] = "entry")
  <2>1. fault' = "INDIRECT_JUMP_MISS" /\ UNCHANGED <<fiberVars, irq, flag>>
    BY <1>2, <1>7 DEF LoadContext
  <2>2. ~refused => gcurrent = NoThread /\ t = DefaultThread
    BY <1>1, <1>2, <1>7 DEF Apart
  <2>3. ~refused => Boundaries'
    BY <1>2, <2>1, <2>2 DEF Boundaries, fiberVars
  <2> QED BY <1>2, <1>3, <2>1, <2>3, AbortedInv DEF Faults
<1> QED BY <1>4, <1>5, <1>6, <1>7

LEMMA InitInv == Init => IInv
<1> SUFFICES ASSUME Init PROVE IInv
  OBVIOUS
<1>1. \A u \in Threads : Fresh(u) \in Registers
  BY ConstantsAssumption DEF Fresh, Registers
<1>2. Active(DefaultThread) \in Frames
  BY <1>1, ConstantsAssumption DEF Active, Frame, Frames
<1>3. frames[SchedulerHost] = <<Active(DefaultThread)>> /\ frames \in [Hosts -> Seq(Frames)]
  BY <1>2, ConstantsAssumption DEF Init
<1>4. Recorded = {}
  BY DEF Init, Recorded, Has
<1>5. TypeOK
  BY <1>1, <1>3, ConstantsAssumption DEF Init, TypeOK, Faults
<1>6. Owned /\ InterruptFlagMirrored
  BY <1>4, ConstantsAssumption DEF Init, Owned, InterruptFlagMirrored
<1>7. Alone(SchedulerHost, DefaultThread)
  <2>1. Len(frames[SchedulerHost]) = 1 /\ Last(frames[SchedulerHost]) = Active(DefaultThread)
    BY <1>2, <1>3, OneFrame
  <2> QED BY <2>1 DEF Alone, Active, Frame
<1>8. Homes
  BY <1>3, <1>4, <1>2, OneFrame DEF Init, Homes
<1>9. Apart /\ Boundaries
  BY <1>4, <1>7 DEF Init, Apart, Boundaries
<1> QED BY <1>5, <1>6, <1>8, <1>9 DEF IInv

\* What the executing code does to its own registers and interrupt flag.
LEMMA WorkInv == IInv /\ Work => IInv'
<1> SUFFICES ASSUME IInv, Work PROVE IInv'
  OBVIOUS
<1>1. /\ cpu' = Worked(cpu)
      /\ UNCHANGED <<guestVars, records, gcurrent, host, frames, allocated, refused, fault>>
  BY DEF Work
<1>2. Worked(cpu) \in Registers
  <2>1. cpu \in Registers /\ (cpu.work + 1) % MaxWork \in 0 .. MaxWork - 1
    BY ConstantsAssumption DEF IInv, TypeOK, Registers
  <2> QED BY <2>1 DEF Worked, Registers
<1>3. Recorded' = Recorded
  BY <1>1 DEF Recorded, Has
<1>4. TypeOK'
  BY <1>1, <1>2 DEF IInv, TypeOK, guestVars
<1>5. Owned' /\ Homes' /\ InterruptFlagMirrored'
  BY <1>1, <1>3 DEF IInv, Owned, Homes, InterruptFlagMirrored, InGuest, guestVars
<1>6. ~refused => Apart' /\ Boundaries'
  BY <1>1, <1>3 DEF IInv, Apart, Alone, Boundaries, RecordFree, InGuest, guestVars
<1> QED BY <1>1, <1>4, <1>5, <1>6 DEF IInv

LEMMA SetInterruptsInv ==
  ASSUME IInv, NEW b \in BOOLEAN, SetInterrupts(b)
  PROVE  IInv'
<1>1. /\ irq' = b /\ flag' = [flag EXCEPT ![running] = b]
      /\ UNCHANGED <<live, context, running, fiberVars, allocated, refused, fault>>
  BY DEF SetInterrupts
<1>2. Recorded' = Recorded
  BY <1>1 DEF Recorded, Has, fiberVars
<1>3. TypeOK' /\ InterruptFlagMirrored'
  BY <1>1 DEF IInv, TypeOK, InterruptFlagMirrored, fiberVars
<1>4. Owned' /\ Homes'
  BY <1>1, <1>2 DEF IInv, Owned, Homes, InGuest, fiberVars
<1>5. ~refused => Apart' /\ Boundaries'
  BY <1>1, <1>2 DEF IInv, Apart, Alone, Boundaries, RecordFree, InGuest, fiberVars
<1> QED BY <1>1, <1>3, <1>4, <1>5 DEF IInv

LEMMA ReturnFromEntryInv == IInv /\ ReturnFromEntry => IInv'
<1> SUFFICES ASSUME IInv, ReturnFromEntry PROVE IInv'
  OBVIOUS
<1>1. /\ fault' \in {"GUEST_FIBER_ENTRY_RETURNED", "OSLOADCONTEXT_TARGET_RETURNED"}
      /\ UNCHANGED <<guestVars, fiberVars, allocated, refused>>
  BY DEF ReturnFromEntry
<1>2. Boundaries'
  BY <1>1 DEF Boundaries
<1> QED BY <1>1, <1>2, AbortedInv DEF IInv, TypeOK, Faults, guestVars

-----------------------------------------------------------------------------
(* The theorems.                                                           *)

\* Records, host stacks and the globals of switch_guest_fiber.cpp fit each other in every
\* reachable state.
THEOREM FiberInvariant == Spec => []IInv
<1>1. IInv /\ [Next]_vars => IInv'
  <2> SUFFICES ASSUME IInv, [Next]_vars PROVE IInv'
    OBVIOUS
  <2>1. ASSUME NEW t \in Threads, CreateThread(t) PROVE IInv'
    BY <2>1, CreateThreadInv
  <2>2. ASSUME NEW t \in Threads, SelectThread(t) PROVE IInv'
    BY <2>2, SelectThreadInv
  <2>3. CASE ReturnFromEntry
    BY <2>3, ReturnFromEntryInv
  <2>4. CASE Work
    BY <2>4, WorkInv
  <2>5. ASSUME NEW b \in BOOLEAN, SetInterrupts(b) PROVE IInv'
    BY <2>5, SetInterruptsInv
  <2>6. CASE UNCHANGED vars
    <3>1. Recorded' = Recorded
      BY <2>6 DEF vars, fiberVars, Recorded, Has
    <3> QED BY <2>6, <3>1 DEF IInv, vars, guestVars, fiberVars, TypeOK, Owned, Homes, InGuest,
                  InterruptFlagMirrored, Apart, Alone, Boundaries, RecordFree
  <2> QED BY <2>1, <2>2, <2>3, <2>4, <2>5, <2>6 DEF Next, Aborted
<1> QED BY InitInv, <1>1, PTL DEF Spec

\* No record ever names a host stack that was freed or that another record names, however
\* often threads are created again and stacks are refused.
THEOREM StacksOwned == Spec => []HostsOwned
<1>1. IInv => HostsOwned
  BY DEF IInv, Owned, HostsOwned
<1> QED BY <1>1, FiberInvariant, PTL

\* The interrupt flag of the current OSContext tells the truth at every selection.
THEOREM FlagMirrored == Spec => []InterruptFlagMirrored
<1>1. IInv => InterruptFlagMirrored
  BY DEF IInv
<1> QED BY <1>1, FiberInvariant, PTL

\* As long as every created thread got a host stack, code runs under its own identity and
\* only the default thread, before its first switch, meets a boundary.
THEOREM RunAsThemselves == Spec => []OwnStacksRunAsThemselves
<1>1. IInv => OwnStacksRunAsThemselves
  <2> SUFFICES ASSUME IInv, ~refused PROVE OwnStacksRunAsThemselves
    BY DEF OwnStacksRunAsThemselves
  <2>1. Apart /\ Boundaries /\ Homes /\ TypeOK
    BY DEF IInv
  <2>2. RunsAsItself
    BY <2>1 DEF Apart, Alone, Homes, RunsAsItself, Executing
  <2>3. gcurrent = NoThread => ~Has(records, DefaultThread)
    BY <2>1, ConstantsAssumption DEF Apart, Recorded
  <2> QED BY <2>1, <2>2, <2>3 DEF OwnStacksRunAsThemselves, Boundaries
<1> QED BY <1>1, FiberInvariant, PTL

-----------------------------------------------------------------------------
(* The refinement of Coroutines, action by action.                         *)

\* The executing thread, and what each thread's own registers and flag are.
Itself ==
  /\ TypeOK /\ Owned /\ Homes /\ Apart /\ InGuest
  /\ Executing = running

LEMMA ItselfFacts == IInv /\ InGuest /\ ~refused => Itself
<1> SUFFICES ASSUME IInv, InGuest, ~refused PROVE Itself
  OBVIOUS
<1>1. TypeOK /\ Owned /\ Homes /\ Apart
  BY DEF IInv
<1>2. Executing = running
  BY <1>1 DEF Apart, Alone, Homes, Executing
<1> QED BY <1>1, <1>2 DEF Itself

LEMMA CreateThreadRefines ==
  ASSUME Itself, Itself', NEW t \in Threads, CreateThread(t), ~refused'
  PROVE  C!Create(t)
<1>1. /\ t \notin live /\ live' = live \cup {t} /\ t # running
      /\ UNCHANGED <<running, irq, cpu, gcurrent, host>>
  BY DEF CreateThread
<1>2. /\ Creation(t) /\ records'[t].saved = Fresh(t) /\ records'[t] # NoRecord
      /\ frames'[records'[t].host] = <<>>
  BY CreationDone DEF Creation, CreateThread, Itself
<1>3. NoThread \notin Threads
  BY ConstantsAssumption
<1>4. Executing' = Executing
  BY <1>1, <1>2 DEF Executing, Creation
<1>5. [u \in Threads |-> RegistersOf(u)]' = [[u \in Threads |-> RegistersOf(u)] EXCEPT ![t] = Fresh(t)]
  <2>1. RegistersOf(t)' = Fresh(t)
    BY <1>1, <1>2, <1>3 DEF RegistersOf, Has
  <2>2. ASSUME NEW u \in Threads, u # t PROVE RegistersOf(u)' = RegistersOf(u)
    BY <1>1, <1>2, <1>3, <2>2 DEF RegistersOf, Has, Creation, Fresh
  <2> QED BY <2>1, <2>2
<1>6. [u \in Threads |-> InterruptsOf(u)]' = [[u \in Threads |-> InterruptsOf(u)] EXCEPT ![t] = FALSE]
  <2>1. InterruptsOf(t)' = FALSE
    BY <1>1, <1>2, <1>3 DEF InterruptsOf, Has
  <2>2. ASSUME NEW u \in Threads, u # t PROVE InterruptsOf(u)' = InterruptsOf(u)
    <3>1. records'[u] = records[u]
      BY <1>2, <2>2 DEF Creation
    <3>2. u \in Recorded => frames'[records[u].host] = frames[records[u].host]
      BY <1>2, <2>2 DEF Creation
    <3> QED BY <1>1, <3>1, <3>2 DEF InterruptsOf, Has, Recorded
  <2> QED BY <2>1, <2>2
<1> QED BY <1>1, <1>4, <1>5, <1>6 DEF C!Create, C!Fresh, Fresh

LEMMA SelectThreadRefines ==
  ASSUME Itself, Itself', NEW t \in Threads, SelectThread(t)
  PROVE  C!Transfer(t)
<1>1. /\ t \in live /\ running' = t
      /\ live' = live \/ (t # running /\ live' = live \ {running})
  BY DEF SelectThread
<1>2. t \in Recorded
  <2> SUFFICES ASSUME t \notin Recorded PROVE FALSE
    OBVIOUS
  <2>1. LoadContext(t)
    BY DEF SelectThread, Recorded
  <2>2. t = DefaultThread /\ gcurrent = NoThread /\ running = t
    BY <1>1 DEF Itself, Apart
  <2>3. fault' = "INDIRECT_JUMP_MISS"
    BY <2>1, <2>2 DEF LoadContext
  <2> QED BY <2>3 DEF Itself, InGuest
<1>3. Switched(t)
  BY <1>2, SwitchFiberDone DEF SelectThread, Recorded, Itself
<1> DEFINE h == records[t].host
<1>4. /\ TypeOK /\ Homes /\ Apart /\ Owned /\ InGuest
      /\ t # NoThread /\ NoThread \notin Threads /\ running \in Threads /\ host \in Hosts
  BY ConstantsAssumption DEF Itself, TypeOK
<1>5. /\ records' = RecordsKept /\ host' = h
      /\ RecordsKept[running] # NoRecord /\ RecordsKept[running].host = host
      /\ RecordsKept[running].saved = cpu
  <2>1. CASE NeedsRegistration
    BY <1>3, <1>4, <2>1, Kept, Registering DEF Switched
  <2>2. CASE ~NeedsRegistration
    BY <1>3, <1>4, <2>2, Kept, Registering DEF Switched, Apart
  <2> QED BY <2>1, <2>2
<1>6. ASSUME NEW u \in Threads \ {running}
      PROVE  /\ RecordsKept[u] # NoRecord <=> u \in Recorded
             /\ u \in Recorded => /\ RecordsKept[u].host = records[u].host
                                  /\ RecordsKept[u].saved = records[u].saved
  <2>1. u # gcurrent
    BY <1>4, <1>6 DEF Apart
  <2> QED BY <1>4, <1>6, <2>1, Kept
<1>7. [u \in Threads |-> RegistersOf(u)]' = [u \in Threads |-> RegistersOf(u)]
  <2>1. RegistersOf(t)' = RegistersOf(t)
    <3>1. RegistersOf(t)' = cpu'
      BY <1>1 DEF RegistersOf
    <3>2. CASE t = running
      <4>1. h = host
        BY <1>2, <1>4, <1>5, <3>2, Kept
      <4>2. cpu' = RecordsKept[t].saved
        BY <1>3, <4>1 DEF Switched
      <4> QED BY <1>5, <3>1, <3>2, <4>2 DEF RegistersOf
    <3>3. CASE t # running
      <4>1. RecordsKept[t].saved = records[t].saved /\ RegistersOf(t) = records[t].saved
        BY <1>2, <1>6, <3>3 DEF RegistersOf, Recorded
      <4>2. frames[h] = <<>> => records[t].saved = Fresh(t)
        BY <1>2, <1>4 DEF Apart
      <4> QED BY <1>3, <3>1, <4>1, <4>2 DEF Switched
    <3> QED BY <3>2, <3>3
  <2>2. ASSUME NEW u \in Threads, u # t PROVE RegistersOf(u)' = RegistersOf(u)
    <3>1. CASE u = running
      BY <1>1, <1>4, <1>5, <2>2, <3>1 DEF RegistersOf, Has
    <3>2. CASE u # running
      BY <1>1, <1>4, <1>5, <1>6, <2>2, <3>2 DEF RegistersOf, Has, Recorded, Fresh
    <3> QED BY <3>1, <3>2
  <2> QED BY <2>1, <2>2
<1>8. [u \in Threads |-> InterruptsOf(u)]' = [u \in Threads |-> InterruptsOf(u)]
  <2>1. InterruptsOf(t)' = InterruptsOf(t)
    <3>1. InterruptsOf(t)' = irq'
      BY <1>1 DEF InterruptsOf
    <3>2. CASE t = running
      <4>1. h = host
        BY <1>2, <1>5, <1>4, <3>2, Kept
      <4> QED BY <1>3, <3>1, <3>2, <4>1 DEF Switched, InterruptsOf
    <3>3. CASE t # running
      <4>1. h # host
        BY <1>2, <1>4, <3>3 DEF Homes, Apart
      <4>2. InterruptsOf(t) = IF frames[h] = <<>> THEN FALSE ELSE Last(frames[h]).irqState
        BY <1>2, <3>3 DEF InterruptsOf, Recorded
      <4> QED BY <1>3, <3>1, <4>1, <4>2 DEF Switched
    <3> QED BY <3>2, <3>3
  <2>2. ASSUME NEW u \in Threads, u # t PROVE InterruptsOf(u)' = InterruptsOf(u)
    <3>1. CASE u = running
      <4>1. h # host
        BY <1>2, <1>4, <1>5, <2>2, <3>1, Kept, Registering DEF Owned, Apart
      <4>2. frames'[host] # <<>> /\ Last(frames'[host]).irqState = irq
        BY <1>2, <1>3, <1>4, <4>1, SwitchedStacks DEF Frame
      <4>3. Has(records', u) /\ records'[u].host = host
        BY <1>4, <1>5, <3>1 DEF Has
      <4> QED BY <1>1, <2>2, <3>1, <4>2, <4>3 DEF InterruptsOf
    <3>2. CASE u # running
      <4>1. Has(records', u) <=> Has(records, u)
        BY <1>4, <1>5, <1>6, <3>2 DEF Has, Recorded
      <4>2. CASE Has(records, u)
        <5>1. u \in Recorded /\ records'[u].host = records[u].host /\ records[u].host \in Hosts
          BY <1>4, <1>5, <1>6, <3>2, <4>2, RecordedThreads DEF Recorded
        <5>2. records[u].host \notin {h, host}
          BY <1>2, <1>4, <2>2, <3>2, <5>1 DEF Owned, Homes, Apart
        <5>3. frames'[records[u].host] = frames[records[u].host]
          BY <1>2, <1>3, <1>4, <5>1, <5>2, SwitchedStacks
        <5> QED BY <1>1, <2>2, <3>2, <4>1, <4>2, <5>1, <5>3 DEF InterruptsOf
      <4>3. CASE ~Has(records, u)
        BY <1>1, <2>2, <3>2, <4>1, <4>3 DEF InterruptsOf
      <4> QED BY <4>2, <4>3
    <3> QED BY <3>1, <3>2
  <2> QED BY <2>1, <2>2
<1>9. Executing = running /\ Executing' = t
  BY <1>1 DEF Itself
<1> QED BY <1>1, <1>7, <1>8, <1>9 DEF C!Transfer

LEMMA WorkRefines == Itself /\ Work => C!Work
<1> SUFFICES ASSUME Itself, Work PROVE C!Work
  OBVIOUS
<1>1. /\ cpu' = Worked(cpu)
      /\ UNCHANGED <<live, running, irq, records, gcurrent, host, frames>>
  BY DEF Work, guestVars
<1>2. Executing = running /\ running \in Threads /\ UNCHANGED Executing
  BY <1>1 DEF Itself, TypeOK, Executing
<1>3. [u \in Threads |-> RegistersOf(u)]'
        = [[u \in Threads |-> RegistersOf(u)] EXCEPT ![running] = Worked(RegistersOf(running))]
  BY <1>1, <1>2 DEF RegistersOf, Has, Fresh
<1>4. [u \in Threads |-> InterruptsOf(u)]' = [u \in Threads |-> InterruptsOf(u)]
  BY <1>1 DEF InterruptsOf, Has
<1> QED BY <1>1, <1>2, <1>3, <1>4 DEF C!Work, C!Worked, Worked

LEMMA SetInterruptsRefines ==
  ASSUME Itself, NEW b \in BOOLEAN, SetInterrupts(b)
  PROVE  C!SetInterrupts(b)
<1>1. irq' = b /\ UNCHANGED <<live, running, cpu, records, gcurrent, host, frames>>
  BY DEF SetInterrupts, fiberVars
<1>2. Executing = running /\ running \in Threads /\ UNCHANGED Executing
  BY <1>1 DEF Itself, TypeOK, Executing
<1>3. [u \in Threads |-> InterruptsOf(u)]'
        = [[u \in Threads |-> InterruptsOf(u)] EXCEPT ![running] = b]
  BY <1>1, <1>2 DEF InterruptsOf, Has
<1>4. [u \in Threads |-> RegistersOf(u)]' = [u \in Threads |-> RegistersOf(u)]
  BY <1>1 DEF RegistersOf, Has, Fresh
<1> QED BY <1>1, <1>2, <1>3, <1>4 DEF C!SetInterrupts

LEMMA InitRefines == Init => C!Init
<1> SUFFICES ASSUME Init PROVE C!Init
  OBVIOUS
<1>1. Executing = DefaultThread
  BY ConstantsAssumption DEF Init, Executing, Active, Frame, Last
<1>2. [u \in Threads |-> RegistersOf(u)] = [u \in Threads |-> Fresh(u)]
  BY DEF Init, RegistersOf, Has
<1>3. [u \in Threads |-> InterruptsOf(u)] = [u \in Threads |-> u = DefaultThread]
  BY DEF Init, InterruptsOf, Has
<1> QED BY <1>1, <1>2, <1>3 DEF Init, C!Init, C!Fresh, Fresh

\* Host stacks, records and one shared CpuContext give every thread registers and an
\* interrupt flag of its own, which change only while it executes: every step that is
\* neither refused a stack nor aborts is a step of Coroutines.
THEOREM FibersAreCoroutines == Spec => ImplementsCoroutines
<1>1. IInv /\ IInv' /\ [Next]_vars => [refused' \/ ~InGuest' \/ C!Next]_(C!vars)
  <2> SUFFICES ASSUME IInv, IInv', [Next]_vars, ~refused', InGuest'
               PROVE  C!Next \/ UNCHANGED C!vars
    OBVIOUS
  <2>1. ~refused /\ InGuest
    BY DEF Next, vars, CreateThread, SelectThread, ReturnFromEntry, Work, SetInterrupts, Aborted,
           HostCreated, HostRefused, IInv, TypeOK, InGuest
  <2>2. Itself /\ Itself'
    <3>1. (IInv /\ InGuest /\ ~refused => Itself)'
      BY ItselfFacts, PTL
    <3> QED BY <2>1, <3>1, ItselfFacts
  <2>3. ASSUME NEW t \in Threads, CreateThread(t) PROVE C!Next
    BY <2>2, <2>3, CreateThreadRefines DEF C!Next
  <2>4. ASSUME NEW t \in Threads, SelectThread(t) PROVE C!Next
    BY <2>2, <2>4, SelectThreadRefines DEF C!Next
  <2>5. CASE ReturnFromEntry
    BY <2>5 DEF ReturnFromEntry, InGuest
  <2>6. CASE Work
    BY <2>2, <2>6, WorkRefines DEF C!Next
  <2>7. ASSUME NEW b \in BOOLEAN, SetInterrupts(b) PROVE C!Next
    BY <2>2, <2>7, SetInterruptsRefines DEF C!Next
  <2>8. CASE UNCHANGED vars
    BY <2>8 DEF vars, guestVars, fiberVars, C!vars, Executing, RegistersOf, InterruptsOf, Has, Fresh
  <2> QED BY <2>3, <2>4, <2>5, <2>6, <2>7, <2>8 DEF Next, Aborted
<1> QED BY InitRefines, FiberInvariant, <1>1, PTL DEF Spec, ImplementsCoroutines

==============================================================================
