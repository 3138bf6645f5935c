---------------------------- MODULE GuestExecution ----------------------------
(***************************************************************************)
(* Translated code between EnterProduct and its return: direct calls go    *)
(* through the traits of abi_bridge.h, indirect ones through the published *)
(* table, DVDInit is a native call that itself calls translated code, and  *)
(* on the way guest threads switch host stacks, so the calls under way on  *)
(* the stacks interleave while all of them share one CpuContext.           *)
(*                                                                         *)
(* Of the registers only the nonvolatile ones are kept, each with two      *)
(* values.  How a switch chooses its target is module OSScheduler, how it  *)
(* is carried out and what goes wrong without a host stack is GuestFiber:  *)
(* here every thread has one.                                              *)
(***************************************************************************)
EXTENDS RuntimeBootstrap, IndirectDispatch

CONSTANTS
  Fibers,       \* guest threads besides the one of the translated start function
  FiberEntry,   \* the address OSCreateThread is given
  Published,    \* the tables the linked product may have registered
  Direct,       \* addresses with a KnownTranslatedCpuCall trait
  Called,       \* addresses translated code calls
  Clobbers,     \* address -> nonvolatile registers the function leaves changed
  DvdInit,      \* 0x8015EA1C, a KnownNativeCpuCall
  DvdFsInit,    \* 0x8015DF1C
  MaxDepth      \* bound on the calls under way on a host stack

\* External: the emitter.  A direct call has no guard for the integer registers, so a
\* function with a trait restores them itself; the masks of a record name every register
\* its function leaves changed.
ASSUME CallsAssumption ==
  /\ Called \cup {DvdFsInit, FiberEntry} \subseteq GuestAddresses
  /\ DvdInit \in Called \ Direct
  /\ Clobbers \in [GuestAddresses -> SUBSET Guardable]
  /\ \A a \in Direct : "gprs" \notin Clobbers[a]
  /\ \A d \in Published :
       /\ d \in Tables /\ Indexed(d)
       /\ \A i \in 1 .. Len(d.entries) :
            LET e == d.entries[i]
            IN  e.linked => Clobbers[e.address] \subseteq e.preserves
ASSUME HostsAssumption == Fibers \cap {"none", "scheduler", "worker"} = {}

VARIABLES
  dispatch,  \* g_staticIndirectDispatchTable
  cpu,       \* nonvolatile registers of the CpuContext
  saved,     \* the saved_cpu of each guest thread's record
  calls,     \* calls under way on each host stack
  entered,   \* fibers whose GuestFiberEntry has begun
  exited,    \* fibers whose thread has exited
  drive,     \* kDvdInitCalled, and the static initializing of DVDInit
  fst,       \* low memory has a structurally valid FST
  prepared,  \* history: how often DVDInit reset the guest's drive state
  blocked    \* history: kind and address of the blocker that was reported

callVars == <<cpu, saved, calls, entered, exited>>
driveVars == <<drive, fst, prepared>>
execVars == <<dispatch, callVars, driveVars, blocked>>
vars == <<bootVars, execVars>>

GuestHosts == {"scheduler"} \cup Fibers
Zero == [r \in Guardable |-> 0]
NoBlocker == [kind |-> "none", address |-> 0]

ExecInit ==
  /\ BootInit
  /\ dispatch \in Published
  /\ cpu = Zero /\ saved = [h \in GuestHosts |-> Zero] /\ calls = [h \in GuestHosts |-> <<>>]
  /\ entered = {} /\ exited = {}
  /\ drive = [called |-> FALSE, initializing |-> FALSE] /\ fst = FALSE /\ prepared = 0
  /\ blocked = NoBlocker

StartProgram == BootNext /\ UNCHANGED execVars

(***************************************************************************)
(* Calls                                                                   *)
(***************************************************************************)
InGuest == stage = "guest"
Executing == calls[current]
CanCall == InGuest /\ Len(Executing) < MaxDepth

\* A call under way: the address asked for, the translated function that runs, and what
\* the guards of its caller put back, with the registers they have kept.
CallOf(target, function, guard, registers) ==
  [target |-> target, function |-> function, native |-> FALSE, guard |-> guard, before |-> registers]

\* The native DVDInit under way.
DvdInitCall == [CallOf(DvdInit, DvdInit, {}, cpu) EXCEPT !.native = TRUE]

\* The report of a blocker and the abort behind it; of the call that gives up nothing is
\* under way.
Abort(kind, address) == blocked' = [kind |-> kind, address |-> address] /\ stage' = "aborted"

Block(kind, address) ==
  /\ Abort(kind, address)
  /\ UNCHANGED <<guestVars, memoryVars, config, contextVars, resultVars, dispatch, callVars, driveVars>>

Push(frames) ==
  /\ calls' = [calls EXCEPT ![current] = @ \o frames]
  /\ UNCHANGED <<bootVars, dispatch, cpu, saved, entered, exited, blocked>>

\* InvokeDirectCpu of an address that has no native function.
InvokeDirect(a) ==
  /\ CanCall /\ a # DvdInit
  /\ IF a \in Direct
     THEN Push(<<CallOf(a, a, Clobbers[a] \ {"gprs"}, cpu)>>) /\ UNCHANGED driveVars
     ELSE Block("DIRECT", a)

\* mkw_switch_try_dispatch_indirect, in InvokeIndirectCpu and InvokeIndirectJump.
Resolved(a) == FindEntry(dispatch, a)
IndirectCall(a, registers) == CallOf(a, Resolved(a).address, Resolved(a).preserves, registers)

InvokeIndirect(a) ==
  /\ CanCall
  /\ IF Resolved(a).linked
     THEN Push(<<IndirectCall(a, cpu)>>) /\ UNCHANGED driveVars
     ELSE Block("INDIRECT", a)

\* External: the function that executes changes what it may leave changed; the start
\* function has no caller that cares.
Work(r) ==
  /\ InGuest
  /\ Executing # <<>> => r \in Clobbers[Last(Executing).function]
  /\ cpu' = [cpu EXCEPT ![r] = 1 - @]
  /\ UNCHANGED <<bootVars, dispatch, saved, calls, entered, exited, driveVars, blocked>>

\* Faulty variant: the guard of the integer registers is missing.
PutBackFprs(call) == [r \in Guardable |-> IF r \in call.guard \ {"gprs"} THEN call.before[r] ELSE cpu[r]]

\* The destructors of the guards.
PutBack(call) == [r \in Guardable |-> IF r \in call.guard THEN call.before[r] ELSE cpu[r]]

\* A call returns.  What __DVDFSInit returns to is the rest of DVDInit, which marks
\* itself done and returns too.  What the entry of a fiber returns to aborts.
Return ==
  /\ InGuest /\ Executing # <<>>
  /\ LET depth == Len(Executing)
         inDvdInit == depth > 1 /\ Executing[depth - 1].native
     IN  IF depth = 1 /\ current \in Fibers
         THEN Block("GUEST_FIBER_ENTRY_RETURNED", FiberEntry)
         ELSE /\ cpu' = PutBack(Last(Executing))
              /\ calls' = [calls EXCEPT ![current] = SubSeq(@, 1, depth - (IF inDvdInit THEN 2 ELSE 1))]
              /\ drive' = IF inDvdInit THEN [called |-> TRUE, initializing |-> FALSE] ELSE drive
              /\ UNCHANGED <<bootVars, dispatch, saved, entered, exited, fst, prepared, blocked>>

\* func_800060A4 returns to run_local_fast_track.
ReturnFromStart ==
  /\ current = "scheduler" /\ Executing = <<>>
  /\ ProductReturns
  /\ UNCHANGED execVars

(***************************************************************************)
(* Guest threads                                                           *)
(***************************************************************************)
CreateFiber(h) ==
  /\ InGuest /\ h \notin contexts
  /\ contexts' = contexts \cup {h}
  /\ UNCHANGED <<guestVars, memoryVars, stage, config, current, scheduler, worker, workerPhase, resultVars, execVars>>

Switchable == (contexts \cap GuestHosts) \ ({current} \cup exited)

\* switch_to between two stacks that have run before; the thread that is left may have
\* exited in the middle of its calls.
SwitchThread(h, exits) ==
  /\ InGuest
  /\ h \in Switchable \cap (entered \cup {"scheduler"})
  /\ exits => current \in Fibers
  /\ exited' = IF exits THEN exited \cup {current} ELSE exited
  /\ saved' = [saved EXCEPT ![current] = cpu] /\ cpu' = saved[h]
  /\ current' = h
  /\ UNCHANGED <<guestVars, memoryVars, stage, config, contexts, scheduler, worker, workerPhase,
                 resultVars, dispatch, calls, entered, driveVars, blocked>>

\* The first switch to a fiber: GuestFiberEntry, on its stack, calls the thread's entry.
EnterFiber(h) ==
  /\ InGuest
  /\ h \in Switchable \ (entered \cup {"scheduler"})
  /\ entered' = entered \cup {h}
  /\ saved' = [saved EXCEPT ![current] = cpu] /\ cpu' = saved[h]
  /\ current' = h
  /\ IF Resolved(FiberEntry).linked
     THEN /\ calls' = [calls EXCEPT ![h] = <<IndirectCall(FiberEntry, saved[h])>>]
          /\ UNCHANGED <<stage, blocked>>
     ELSE Abort("INDIRECT", FiberEntry) /\ UNCHANGED calls
  /\ UNCHANGED <<guestVars, memoryVars, config, contexts, scheduler, worker, workerPhase,
                 resultVars, dispatch, exited, driveVars>>

(***************************************************************************)
(* DVDInit                                                                 *)
(***************************************************************************)
\* External: translated code, or the data sections, leave an FST where low memory says.
PublishFst ==
  /\ InGuest /\ fst' = TRUE
  /\ UNCHANGED <<bootVars, dispatch, callVars, drive, prepared, blocked>>

\* The guest words DVDInit writes are all in MEM1.
RangesAvailable == GetPointer(Cached, Mem1Size) # NoHost

\* Faulty variant: only a complete initialization is recognized.
MayInitializeAgain == RangesAvailable /\ ~drive.called

MayInitialize == RangesAvailable /\ ~drive.called /\ ~drive.initializing

\* The queues, contexts and the disc header are written; without an FST there is nothing
\* to call.  A DVDInit that may not initialize returns and changes nothing.
DvdInitAlone ==
  /\ CanCall /\ MayInitialize /\ ~fst
  /\ prepared' = prepared + 1
  /\ drive' = [called |-> TRUE, initializing |-> FALSE]
  /\ UNCHANGED <<bootVars, dispatch, callVars, fst, blocked>>

\* The state is reset, and the flag against re-entry set, before the call is tried.
DvdInitCallsFsInit ==
  /\ CanCall /\ MayInitialize /\ fst
  /\ prepared' = prepared + 1
  /\ drive' = [drive EXCEPT !.initializing = TRUE]
  /\ UNCHANGED fst
  /\ IF Resolved(DvdFsInit).linked
     THEN Push(<<DvdInitCall, IndirectCall(DvdFsInit, cpu)>>)
     ELSE /\ Abort("INDIRECT", DvdFsInit)
          /\ UNCHANGED <<guestVars, memoryVars, config, contextVars, resultVars, dispatch, callVars>>

Next ==
  \/ StartProgram
  \/ \E a \in Called : InvokeDirect(a) \/ InvokeIndirect(a)
  \/ \E r \in Guardable : Work(r)
  \/ Return \/ ReturnFromStart
  \/ \E h \in Fibers : CreateFiber(h) \/ EnterFiber(h)
  \/ \E h \in GuestHosts, exits \in BOOLEAN : SwitchThread(h, exits)
  \/ PublishFst \/ DvdInitAlone \/ DvdInitCallsFsInit

Spec == ExecInit /\ [][Next]_vars

(***************************************************************************)
(* Properties                                                              *)
(***************************************************************************)
Listed(a) == \E i \in DOMAIN dispatch.entries : dispatch.entries[i].address = a /\ dispatch.entries[i].linked

\* A call runs the function of exactly the address asked for, whatever pages the table
\* has, and an indirect one gives up only on an address that the table does not list.
CallsReachTheirTargets ==
  /\ \A h \in GuestHosts : \A i \in DOMAIN calls[h] : calls[h][i].function = calls[h][i].target
  /\ blocked.kind = "INDIRECT" => ~Listed(blocked.address)

\* When a call returns, its caller finds every nonvolatile register as it left it,
\* though the function leaves some changed, the calls it makes others, and other threads
\* have run with the same CpuContext meanwhile.
NonvolatilesKept ==
  [][\A h \in GuestHosts :
       Len(calls'[h]) < Len(calls[h]) => cpu' = calls[h][Len(calls'[h]) + 1].before]_vars

\* The native calls under way, by host stack and place.
DvdInits == UNION {{h} \X {i \in DOMAIN calls[h] : calls[h][i].native} : h \in GuestHosts}

\* However the threads that call DVDInit interleave with the translated __DVDFSInit it
\* calls, and even if the one that does exits in it: they reset the drive state of the
\* guest once, never under a thread that has seen it complete, and while it is not
\* complete one DVDInit is under way, with __DVDFSInit above it, or the process has aborted.
DriveInitializedOnce ==
  /\ prepared = IF drive.called \/ drive.initializing THEN 1 ELSE 0
  /\ stage # "aborted" => Cardinality(DvdInits) = IF drive.initializing THEN 1 ELSE 0
  /\ \A c \in DvdInits : /\ c[2] + 1 \in DOMAIN calls[c[1]]
                         /\ calls[c[1]][c[2] + 1].target = DvdFsInit
  /\ drive.called => ~drive.initializing
=============================================================================
