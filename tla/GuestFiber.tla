----------------------------- MODULE GuestFiber -----------------------------
(***************************************************************************)
(* How SelectThread carries out a switch on the host: the host stacks of   *)
(* HostContext, the records of switch_guest_fiber.cpp, the one CpuContext  *)
(* all translated code shares, and the OSLoadContext fallback for a thread *)
(* without a host stack.  Module OSScheduler decides whom to select; here  *)
(* any live thread may be.                                                 *)
(*                                                                         *)
(* A host stack is the sequence of the guest threads whose C++ frames are  *)
(* on it, oldest first.  FiberState beyond Empty is written and never      *)
(* read, so it is left out.                                                *)
(***************************************************************************)
EXTENDS Naturals, Sequences, FiniteSets, SequencesExt

CONSTANTS
  Threads,        \* guest OSThread addresses
  DefaultThread,  \* the thread the bootstrap's own host stack executes
  NoThread,       \* guest thread 0
  Hosts,          \* HostContext handles the allocator can give out
  SchedulerHost,  \* the handle of the bootstrap's host stack
  MaxFibers,      \* kMaxGuestFibers, 64 in the code
  AllocationMayFail, \* HostContext::Create may return null
  MaxWork,        \* bound on the register contents told apart
  MaxDepth,       \* bound on the threads dispatched on one host stack
  NoRecord        \* an Empty GuestFiberRecord

Registers == [owner : Threads, work : 0 .. MaxWork - 1]

ASSUME ConstantsAssumption ==
  /\ DefaultThread \in Threads
  /\ NoThread \notin Threads
  /\ SchedulerHost \in Hosts
  /\ MaxFibers \in Nat
  /\ AllocationMayFail \in BOOLEAN
  /\ MaxWork \in Nat \ {0}
  /\ MaxDepth \in Nat
  /\ NoRecord \notin [host : Hosts, saved : Registers]

VARIABLES
  live,      \* threads created and not exited
  context,   \* SRR0 of each OSContext: the thread's entry, or behind a call
  flag,      \* OSContext mode bit 1 of each thread
  running,   \* 0x800000E4 and 0x800000D4, equal whenever SelectThread switches
  irq,       \* g_interruptsEnabled
  cpu,       \* the shared CpuContext
  records,   \* g_records, by guest thread
  gcurrent,  \* g_current_guest_thread
  host,      \* HostContext's g_current
  allocated, \* handles that exist
  frames,    \* what is on each host stack
  refused,   \* history: a thread was created without a host stack
  fault      \* the boundary the runtime aborted at, or "none"

guestVars == <<live, context, flag, running, irq>>
fiberVars == <<cpu, records, gcurrent, host, frames>>
vars == <<guestVars, fiberVars, allocated, refused, fault>>

Fresh(t) == [owner |-> t, work |-> 0]
Worked(r) == [r EXCEPT !.work = (@ + 1) % MaxWork]

\* A thread's frames, and what its innermost switch_to call keeps on the stack.
Frame(t, previous, caller, irqState) ==
  [thread |-> t, previous |-> previous, caller |-> caller, irqState |-> irqState]

Active(t) == Frame(t, NoThread, Fresh(t), FALSE)

Frames == [thread : Threads, previous : Threads \cup {NoThread},
           caller : Registers, irqState : BOOLEAN]

Faults == {"none", "INDIRECT_JUMP_MISS", "SELECTTHREAD_REGISTER_MAIN_FIBER",
           "GUEST_FIBER_ENTRY_RETURNED", "OSLOADCONTEXT_TARGET_RETURNED"}

TypeOK ==
  /\ live \subseteq Threads
  /\ context \in [Threads -> {"entry", "interior"}]
  /\ flag \in [Threads -> BOOLEAN]
  /\ running \in Threads
  /\ irq \in BOOLEAN
  /\ cpu \in Registers
  /\ records \in [Threads -> [host : Hosts, saved : Registers] \cup {NoRecord}]
  /\ gcurrent \in Threads \cup {NoThread}
  /\ host \in Hosts
  /\ allocated \subseteq Hosts
  /\ frames \in [Hosts -> Seq(Frames)]
  /\ refused \in BOOLEAN
  /\ fault \in Faults

Init ==
  /\ live = {DefaultThread}
  /\ context = [t \in Threads |-> "entry"]
  /\ flag = [t \in Threads |-> t = DefaultThread]
  /\ running = DefaultThread
  /\ irq = TRUE
  /\ cpu = Fresh(DefaultThread)
  /\ records = [t \in Threads |-> NoRecord]
  /\ gcurrent = NoThread
  /\ host = SchedulerHost
  /\ allocated = {SchedulerHost}
  /\ frames = [h \in Hosts |->
                 IF h = SchedulerHost
                 THEN <<Active(DefaultThread)>>
                 ELSE <<>>]
  /\ refused = FALSE
  /\ fault = "none"

Has(recs, t) == t # NoThread /\ recs[t] # NoRecord
Recorded == {t \in Threads : Has(records, t)}

\* The thread whose code the processor executes.
Executing == Last(frames[host]).thread

InGuest == fault = "none"

-----------------------------------------------------------------------------
(* OSCreateThread and switch_guest_fiber::create.                           *)

\* The old host stack of a thread that is created again; HostContext::Destroy
\* spares the one it is called on.
Destroyed(t) ==
  IF Has(records, t) /\ records[t].host \notin {SchedulerHost, host}
  THEN {records[t].host}
  ELSE {}

RecordFree == Cardinality(Recorded) < MaxFibers

RecordAvailable(t) == Has(records, t) \/ RecordFree

\* Faulty variant: the new stack is destroyed in place of the old one.
HostCreatedThenDestroyed(t) ==
  /\ RecordAvailable(t)
  /\ \E h \in Hosts \ allocated :
       /\ allocated' = IF Has(records, t) THEN allocated ELSE allocated \cup {h}
       /\ records' = [records EXCEPT ![t] = [host |-> h, saved |-> Fresh(t)]]
       /\ frames' = [frames EXCEPT ![h] = <<>>]
       /\ UNCHANGED refused

\* create: a record that is there already is taken over.
HostCreated(t) ==
  /\ RecordAvailable(t)
  /\ \E h \in (Hosts \ allocated) \cup Destroyed(t) :
       /\ allocated' = (allocated \ Destroyed(t)) \cup {h}
       /\ records' = [records EXCEPT ![t] = [host |-> h, saved |-> Fresh(t)]]
       /\ frames' = [k \in Hosts |-> IF k \in Destroyed(t) \cup {h} THEN <<>> ELSE frames[k]]
       /\ UNCHANGED refused

\* Faulty variant: a record whose host stack was not allocated is not emptied.
HostRefusedKeepingRecord(t) ==
  /\ RecordAvailable(t)
  /\ AllocationMayFail
  /\ allocated' = allocated \ Destroyed(t)
  /\ records' = [records EXCEPT ![t] = [host |-> NoThread, saved |-> Fresh(t)]]
  /\ refused' = TRUE
  /\ UNCHANGED frames

\* No record is free, or the host stack cannot be allocated; a record that was there
\* is emptied and its old stack is gone.
HostRefused(t) ==
  /\ RecordAvailable(t) => AllocationMayFail
  /\ allocated' = allocated \ Destroyed(t)
  /\ records' = [records EXCEPT ![t] = NoRecord]
  /\ frames' = [k \in Hosts |-> IF k \in Destroyed(t) THEN <<>> ELSE frames[k]]
  /\ refused' = TRUE

\* The result of create is ignored: the guest sees a created thread either way.
CreateThread(t) ==
  /\ InGuest
  /\ t \notin live \cup {DefaultThread, running}
  /\ live' = live \cup {t}
  /\ context' = [context EXCEPT ![t] = "entry"]
  /\ flag' = [flag EXCEPT ![t] = FALSE]
  /\ HostCreated(t) \/ HostRefused(t)
  /\ UNCHANGED <<running, irq, cpu, gcurrent, host, fault>>

-----------------------------------------------------------------------------
(* switch_guest_fiber::switch_to, on m, the words it reads and writes.      *)

Machine == [cpu |-> cpu, records |-> records, gcurrent |-> gcurrent, host |-> host,
            frames |-> frames]

\* register_current: the thread that is running owns the scheduler's host stack.
Registered(m) ==
  [m EXCEPT !.records[running] = [host |-> SchedulerHost, saved |-> m.cpu],
            !.gcurrent = running]

\* Faulty variant: nothing is saved for the thread that is left.
TargetLoadedOnly(m, t) ==
  [m EXCEPT !.gcurrent = t,
            !.cpu = m.records[t].saved]

\* The registers of the thread that is left go to its record, the target's come.
TargetLoaded(m, t) ==
  LET kept == IF Has(m.records, m.gcurrent)
              THEN [m.records EXCEPT ![m.gcurrent].saved = m.cpu]
              ELSE m.records
  IN  [m EXCEPT !.records = kept,
                !.gcurrent = t,
                !.cpu = kept[t].saved]

\* The source stack keeps switch_to's locals and the handler's interrupt state.
Suspended(m, previous, caller, irqState) ==
  [m EXCEPT !.frames[m.host][Len(m.frames[m.host])] =
     Frame(@.thread, previous, caller, irqState)]

\* The first switch to a host stack runs GuestFiberEntry.
Entered(m, t) == [m EXCEPT !.host = m.records[t].host,
                           !.frames[m.records[t].host] = <<Active(t)>>,
                           !.cpu = Fresh(t)]

\* A later one continues the switch_to call the stack was left in: registers of the
\* thread that left if the guest globals name it, of the caller if they do not.
Continued(m, t) ==
  LET h == m.records[t].host
      f == Last(m.frames[h])
      confirmed == f.previous = t /\ Has(m.records, t)
  IN  [m EXCEPT !.host = h,
                !.frames[h][Len(m.frames[h])] = Active(f.thread),
                !.cpu = IF confirmed THEN m.records[t].saved ELSE f.caller,
                !.gcurrent = IF confirmed THEN t ELSE NoThread]

\* Faulty variant: the registers are switched, the host stack is not.
RegistersSwitchedOnly(m, t) == TargetLoaded(m, t)

SwitchTo(m, t) ==
  LET loaded == TargetLoaded(m, t)
      left == Suspended(loaded, m.gcurrent, m.cpu, irq)
      target == m.records[t].host
  IN  IF target = m.host THEN loaded
      ELSE IF m.frames[target] = <<>> THEN Entered(left, t)
      ELSE Continued(left, t)

\* Faulty variant: the interrupts stay disabled behind the switch.
InterruptsLeftDisabled(m) == FALSE

\* The handler whose stack continues restores the interrupt state it found.
InterruptsAfter(m) ==
  IF m.host = host THEN irq
  ELSE IF frames[m.host] = <<>> THEN FALSE
  ELSE Last(frames[m.host]).irqState

Become(m) ==
  /\ cpu' = m.cpu
  /\ records' = m.records
  /\ gcurrent' = m.gcurrent
  /\ host' = m.host
  /\ frames' = m.frames

-----------------------------------------------------------------------------
(* The end of SelectThread, called by a handler of the running thread with  *)
(* interrupts disabled, for the thread t it took from a run queue.          *)

\* Faulty variant: the thread that is left is not registered.
RegistrationForgotten == FALSE

NeedsRegistration == gcurrent = NoThread /\ ~Has(records, running)

\* Faulty variant: restoring the interrupts does not reach the OSContext.
SwitchFiberKeepingFlag(t) ==
  LET m == SwitchTo(IF NeedsRegistration THEN Registered(Machine) ELSE Machine, t)
  IN  /\ Become(m)
      /\ irq' = InterruptsAfter(m)
      /\ flag' = [flag EXCEPT ![running] = FALSE, ![t] = FALSE]
      /\ UNCHANGED fault

SwitchFiber(t) ==
  IF NeedsRegistration /\ (host # SchedulerHost \/ ~RecordAvailable(running))
  THEN /\ fault' = "SELECTTHREAD_REGISTER_MAIN_FIBER"
       /\ UNCHANGED <<fiberVars, irq, flag>>
  ELSE LET m == SwitchTo(IF NeedsRegistration THEN Registered(Machine) ELSE Machine, t)
       IN  /\ Become(m)
           /\ irq' = InterruptsAfter(m)
           /\ flag' = [flag EXCEPT ![running] = FALSE, ![t] = InterruptsAfter(m)]
           /\ UNCHANGED fault

\* OSLoadContext dispatches SRR0 on the stack of the thread that is left; only
\* the entry of a function can be dispatched.
LoadContext(t) ==
  IF t # running /\ context[t] = "entry"
  THEN /\ Len(frames[host]) < MaxDepth
       /\ cpu' = Fresh(t)
       /\ frames' = [frames EXCEPT ![host] = Append(@, Active(t))]
       /\ irq' = FALSE
       /\ flag' = [flag EXCEPT ![running] = FALSE, ![t] = FALSE]
       /\ UNCHANGED <<records, gcurrent, host, fault>>
  ELSE /\ fault' = "INDIRECT_JUMP_MISS"
       /\ UNCHANGED <<fiberVars, irq, flag>>

\* SelectThread saves the context of the thread that is left, its return address
\* included, publishes t and switches to its host stack if it has one.
SelectThread(t) ==
  /\ InGuest
  /\ t \in live
  /\ live' \in {live} \cup (IF t = running THEN {} ELSE {live \ {running}})
  /\ context' = [context EXCEPT ![running] = "interior"]
  /\ running' = t
  /\ IF Has(records, t) THEN SwitchFiber(t) ELSE LoadContext(t)
  /\ UNCHANGED <<allocated, refused>>

\* A thread's entry function returns: OSExitThread is not called.
ReturnFromEntry ==
  /\ InGuest
  /\ Executing # DefaultThread
  /\ fault' = IF Len(frames[host]) = 1 THEN "GUEST_FIBER_ENTRY_RETURNED"
                                       ELSE "OSLOADCONTEXT_TARGET_RETURNED"
  /\ UNCHANGED <<guestVars, fiberVars, allocated, refused>>

\* External: translated code of the executing thread changes its registers ...
Work ==
  /\ InGuest
  /\ cpu' = Worked(cpu)
  /\ UNCHANGED <<guestVars, records, gcurrent, host, frames, allocated, refused, fault>>

\* ... and its interrupt flag, which the current OSContext mirrors.
SetInterrupts(b) ==
  /\ InGuest
  /\ irq' = b
  /\ flag' = [flag EXCEPT ![running] = b]
  /\ UNCHANGED <<live, context, running, fiberVars, allocated, refused, fault>>

Aborted == fault # "none" /\ UNCHANGED vars

Next ==
  \/ \E t \in Threads : CreateThread(t) \/ SelectThread(t)
  \/ ReturnFromEntry
  \/ Work
  \/ \E b \in BOOLEAN : SetInterrupts(b)
  \/ Aborted

Spec == Init /\ [][Next]_vars

-----------------------------------------------------------------------------
(* Safety.                                                                  *)

\* The host stack that executes belongs to the thread the guest globals name: no
\* thread's code ever runs under another thread's identity.
RunsAsItself == InGuest => Executing = running

\* As long as every created thread got a host stack of its own, that is so, and no
\* selection meets a boundary of the runtime but two, both before the default thread
\* ever switched to another, when nothing has registered its stack: it yields to
\* itself, or the created threads have taken every record.
OwnStacksRunAsThemselves ==
  ~refused =>
    /\ RunsAsItself
    /\ fault \in {"SELECTTHREAD_REGISTER_MAIN_FIBER", "INDIRECT_JUMP_MISS"} =>
         gcurrent = NoThread /\ ~Has(records, DefaultThread)
    /\ fault = "INDIRECT_JUMP_MISS" => running = DefaultThread
    /\ fault = "SELECTTHREAD_REGISTER_MAIN_FIBER" => ~RecordFree

\* Every record owns a host stack that exists, and no two records share one: a
\* stack freed under a record would be switched to. With the types.
HostsOwned ==
  /\ TypeOK
  /\ \A t \in Recorded : records[t].host \in allocated
  /\ \A t, u \in Recorded : records[t].host = records[u].host => t = u
  /\ host \in allocated

\* Mode bit 1 of the current OSContext tells whether interrupts are enabled; that
\* decides whether SelectThread saves the context.
InterruptFlagMirrored == InGuest => flag[running] = irq

-----------------------------------------------------------------------------
(* The host stacks and records give each thread registers and an interrupt  *)
(* flag of its own.                                                         *)

RegistersOf(t) ==
  IF t = running THEN cpu ELSE IF Has(records, t) THEN records[t].saved ELSE Fresh(t)

InterruptsOf(t) ==
  IF t = running THEN irq
  ELSE IF Has(records, t) /\ frames[records[t].host] # <<>>
  THEN Last(frames[records[t].host]).irqState
  ELSE FALSE

C == INSTANCE Coroutines WITH
       Main <- DefaultThread,
       alive <- live,
       executing <- Executing,
       regs <- [t \in Threads |-> RegistersOf(t)],
       irqs <- [t \in Threads |-> InterruptsOf(t)]

\* Registers and interrupt flags survive every interleaving of switches, as long as
\* every thread got a host stack of its own and the runtime did not abort.
ImplementsCoroutines == C!Init /\ [][refused' \/ ~InGuest' \/ C!Next]_(C!vars)
=============================================================================
