--------------------------- MODULE RuntimeBootstrap ---------------------------
(***************************************************************************)
(* The host program around the translated game: main runs the probes that  *)
(* bring guest memory up and down (main.cpp), runtime_bootstrap::start     *)
(* brings it up for good, adopts the host thread as the scheduler context, *)
(* tries a worker context and hands over to the translated product, and    *)
(* stop takes everything down (runtime_bootstrap.cpp).                     *)
(*                                                                         *)
(* Any allocation can fail at any time, and whether and how a translated   *)
(* product is linked is the build's choice.                                *)
(***************************************************************************)
EXTENDS MemorySlice

CONSTANTS
  SmokeTable, ProbeTable,  \* the region tables of the two GuestFlat probes
  Configurations,          \* Memory::Config values the memory probe is tried with, WiiDefaults among them
  Mem1ArenaLo, Mem1ArenaHi, Mem2LoFloor,  \* k..Default and kMem2LoFloor of the low memory
  FstReserve, IpcArena, IosReserved       \* sizes cut off the end of MEM2

ASSUME ConfigurationsAssumption ==
  {SmokeTable, ProbeTable} \subseteq Seq(Requests) /\ Configurations \subseteq Seq(Configured)

\* The regions of a table do not contradict each other, which initialize does not check: one
\* of MEM1 or MEM2 ends in its segment, and an address in two regions is in one section.
WellLaid(t) ==
  /\ \A n \in DOMAIN t : t[n].backing # "Owned" => (t[n].base % Segment) + t[n].size <= Segment
  /\ \A m, n \in DOMAIN t : \A a \in t[m].base .. t[m].base + t[m].size - 1 :
       t[n].base <= a /\ a < t[n].base + t[n].size => SectionKey(t[m]) = SectionKey(t[n])

ASSUME LayoutsAssumption ==
  \A t \in {SmokeTable, ProbeTable} \cup {RequestsFor(c) : c \in Configurations} : WellLaid(t)

\* The constants of the low memory leave every area some room in its memory.
ASSUME LowMemoryAssumption ==
  /\ {Mem1ArenaLo, Mem1ArenaHi, Mem2LoFloor, FstReserve} \subseteq Nat
  /\ {IpcArena, IosReserved} \subseteq Nat \ {0}
  /\ Cached <= Mem1ArenaLo /\ Mem1ArenaLo < Mem1ArenaHi /\ Mem1ArenaHi <= Cached + Mem1Size
  /\ Cached + Half <= Mem2LoFloor
  /\ Mem2LoFloor + FstReserve + IpcArena + IosReserved < Cached + Half + Mem2Size

VARIABLES
  stage,        \* where main is
  config,       \* the configuration Memory::Init works on
  contexts,     \* host contexts that have not been destroyed
  current,      \* HostContext's g_current
  scheduler,    \* g_scheduler
  worker,       \* g_worker
  workerPhase,  \* g_worker_phase
  product,      \* what translated_product and the two handoffs report
  stopPoint,    \* result.stop_point
  lowMemory     \* the arena words of guest low memory, NoLayout until they are stored

flatVars == <<sections, regions, guestBase, reservation, active, allocated, reserved>>
loopVars == <<table, next, phase>>
contextVars == <<contexts, current, scheduler, worker, workerPhase>>
resultVars == <<product, stopPoint, lowMemory>>
bootVars == <<guestVars, memoryVars, stage, config, contextVars, resultVars>>

\* Stages in which memory is being brought up, and the stage that follows.
After == [smoke |-> "api_probe", api_probe |-> "memory_probe", memory_probe |-> "services", memory |-> "scheduler"]

NoProduct == [linked |-> FALSE, compatible |-> FALSE, initializer |-> FALSE, runner |-> FALSE]
Products == {p \in [linked : BOOLEAN, compatible : BOOLEAN, initializer : BOOLEAN, runner : BOOLEAN] :
               p.compatible => p.linked}

(***************************************************************************)
(* wii_boot_low_memory.cpp: what the loader of a console leaves behind     *)
(***************************************************************************)
NoLayout == [mem1ArenaLo |-> 0, mem1ArenaHi |-> 0, mem2ArenaLo |-> 0, mem2ArenaHi |-> 0,
             ipcBufferLo |-> 0, ipcBufferHi |-> 0, iosReservedLo |-> 0, iosReservedHi |-> 0]

PinnedLayout ==
  LET end == Cached + Half + Mem2Size
      iosReservedLo == end - IosReserved
      ipcBufferLo == iosReservedLo - IpcArena
  IN  [mem1ArenaLo |-> Mem1ArenaLo, mem1ArenaHi |-> Mem1ArenaHi,
       mem2ArenaLo |-> Mem2LoFloor, mem2ArenaHi |-> ipcBufferLo - FstReserve,
       ipcBufferLo |-> ipcBufferLo, ipcBufferHi |-> iosReservedLo,
       iosReservedLo |-> iosReservedLo, iosReservedHi |-> end]

\* write_word skips a word that is not mapped; all of them are in the first unit of MEM1.
Seeded == IF GetPointer(Cached, 1) = NoHost THEN lowMemory ELSE PinnedLayout

\* The local fast track skips the probes.
BootInit ==
  /\ Init /\ SliceInit
  /\ stage \in {"smoke", "services"}
  /\ config = <<>>
  /\ contexts = {} /\ current = "none" /\ scheduler = "none" /\ worker = "none" /\ workerPhase = 0
  /\ product = NoProduct /\ stopPoint = "Failed" /\ lowMemory = NoLayout

(***************************************************************************)
(* Guest memory: the probes and Memory::Init                               *)
(***************************************************************************)
ProbeInitialize ==
  /\ \/ stage = "smoke" /\ Initialize(SmokeTable)
     \/ stage = "api_probe" /\ Initialize(ProbeTable)
  /\ UNCHANGED <<memoryVars, stage, config, contextVars, resultVars>>

\* Memory::Init up to the loops of initialize; Reset has taken down whatever
\* was active.
MemoryInitialize(c) ==
  /\ \/ stage = "memory_probe"
     \/ stage = "memory" /\ c = WiiDefaults
  /\ phase = "idle" /\ ~memoryReady
  /\ Reset
  /\ config' = c /\ table' = RequestsFor(c) /\ next' = 1
  /\ phase' = IF Len(c) > MaxRegions THEN "failed" ELSE "regions"
  /\ UNCHANGED <<stage, contextVars, resultVars>>

Loop ==
  /\ InitializeStep
  /\ UNCHANGED <<memoryVars, stage, config, contextVars, resultVars>>

\* run_smoke_test tears down on either result, the API probe only after a
\* success: GuestFlat::Initialize aborts otherwise.
ProbeDone ==
  /\ stage \in {"smoke", "api_probe"} /\ phase \in {"succeeded", "failed"}
  /\ phase' = "idle"
  /\ IF phase = "failed" /\ stage = "api_probe"
     THEN stage' = "aborted" /\ UNCHANGED flatVars
     ELSE stage' = After[stage] /\ Release
  /\ UNCHANGED <<table, next, memoryVars, config, contextVars, resultVars>>

MemoryBound ==
  /\ stage \in {"memory_probe", "memory"} /\ phase \in {"succeeded", "failed"}
  /\ phase' = "idle"
  /\ IF phase = "failed" \/ ~AllHaveViews(config)
     THEN stage' = "aborted" /\ UNCHANGED memoryVars
     ELSE BindRegions(config) /\ stage' = IF stage = "memory" THEN After[stage] ELSE stage
  /\ UNCHANGED <<flatVars, table, next, config, contextVars, resultVars>>

MemoryProbeDone ==
  /\ stage = "memory_probe" /\ memoryReady
  /\ Reset /\ stage' = After[stage]
  /\ UNCHANGED <<loopVars, config, contextVars, resultVars>>

(***************************************************************************)
(* runtime_bootstrap::start                                                *)
(***************************************************************************)
Services ==
  /\ stage = "services"
  /\ stage' \in {"memory", "waiting"}
  /\ UNCHANGED <<guestVars, memoryVars, config, contextVars, resultVars>>

\* Faulty variant: memory stays up when there is no scheduler.
SchedulerRefusedKeepingMemory ==
  /\ stage = "scheduler"
  /\ stage' = "waiting"
  /\ UNCHANGED <<guestVars, memoryVars, config, contextVars, resultVars>>

SchedulerRefused ==
  /\ stage = "scheduler"
  /\ Reset /\ stage' = "waiting"
  /\ UNCHANGED <<loopVars, config, contextVars, resultVars>>

SchedulerReady ==
  /\ stage = "scheduler" /\ current = "none"
  /\ contexts' = contexts \cup {"scheduler"} /\ current' = "scheduler" /\ scheduler' = "scheduler"
  /\ stage' = "worker" /\ workerPhase' = 0
  /\ UNCHANGED <<guestVars, memoryVars, config, worker, resultVars>>

\* HostContext::Create gives back what it had when a later allocation fails.
WorkerRefused ==
  /\ stage = "worker"
  /\ contexts' = contexts \ {scheduler} /\ current' = "none" /\ scheduler' = "none"
  /\ Reset /\ stage' = "waiting"
  /\ UNCHANGED <<loopVars, config, worker, workerPhase, resultVars>>

WorkerReady ==
  /\ stage = "worker"
  /\ contexts' = contexts \cup {"worker"} /\ worker' = "worker" /\ stage' = "handoff"
  /\ UNCHANGED <<guestVars, memoryVars, config, current, scheduler, workerPhase, resultVars>>

\* HostContext::Switch(g_worker): the worker's stack runs to its next switch.
SwitchToWorker ==
  /\ stage = "handoff" /\ workerPhase < 2
  /\ current' = worker
  /\ stage' = "on_worker"
  /\ UNCHANGED <<guestVars, memoryVars, config, contexts, scheduler, worker, workerPhase, resultVars>>

WorkerYields ==
  /\ stage = "on_worker"
  /\ workerPhase' = workerPhase + 1
  /\ current' = scheduler
  /\ stage' = "handoff"
  /\ UNCHANGED <<guestVars, memoryVars, config, contexts, scheduler, worker, resultVars>>

\* HostContext::Destroy leaves the current context alone.
DestroyWorker ==
  /\ stage = "handoff" /\ workerPhase = 2
  /\ contexts' = contexts \ ({worker} \ {current}) /\ worker' = "none"
  /\ stage' = "inspect"
  /\ UNCHANGED <<guestVars, memoryVars, config, current, scheduler, workerPhase, resultVars>>

CoreReady == memoryReady /\ scheduler # "none" /\ workerPhase = 2

Inspect ==
  /\ stage = "inspect"
  /\ product' \in Products
  /\ stopPoint' = CASE ~CoreReady -> stopPoint
                    [] ~product'.linked -> "WaitingForTranslatedProduct"
                    [] product'.linked /\ ~product'.compatible -> stopPoint
                    [] OTHER -> "TranslatedProductLinked"
  /\ stage' = IF CoreReady /\ product'.compatible THEN "data" ELSE "waiting"
  /\ UNCHANGED <<guestVars, memoryVars, config, contextVars, lowMemory>>

\* Faulty variant: the execution handoff does not wait for the data sections.
RunRegardless ==
  /\ stage = "data"
  /\ \E ok \in BOOLEAN :
       /\ stopPoint' = IF ok THEN "DataSectionsInitialized" ELSE "DataSectionInitializationFailed"
       /\ stage' = "execution"
  /\ lowMemory' = Seeded
  /\ UNCHANGED <<guestVars, memoryVars, config, contextVars, product>>

\* The handoff may be compiled out; otherwise run_data_initializer stores the words of
\* low memory before the initializer runs and reports.
InitializeData ==
  /\ stage = "data"
  /\ \/ /\ stage' = "waiting" /\ UNCHANGED <<stopPoint, lowMemory>>
     \/ /\ ~product.initializer
        /\ stage' = "waiting" /\ stopPoint' = "WaitingForDataInitializer" /\ UNCHANGED lowMemory
     \/ /\ product.initializer /\ lowMemory' = Seeded
        /\ \/ stage' = "execution" /\ stopPoint' = "DataSectionsInitialized"
           \/ stage' = "waiting" /\ stopPoint' = "DataSectionInitializationFailed"
  /\ UNCHANGED <<guestVars, memoryVars, config, contextVars, product>>

EnterProduct ==
  /\ stage = "execution"
  /\ \/ stage' = "waiting" /\ UNCHANGED stopPoint
     \/ ~product.runner /\ stage' = "waiting" /\ stopPoint' = "WaitingForTranslatedExecution"
     \/ product.runner /\ stage' = "guest" /\ UNCHANGED stopPoint
  /\ UNCHANGED <<guestVars, memoryVars, config, contextVars, product, lowMemory>>

ProductReturns ==
  /\ stage = "guest"
  /\ stopPoint' \in {"Executed", "ExecutionFailed"}
  /\ stage' = "waiting"
  /\ UNCHANGED <<guestVars, memoryVars, config, contextVars, product, lowMemory>>

(***************************************************************************)
(* runtime_bootstrap::stop, after the idle loop of main                    *)
(***************************************************************************)
Stop ==
  /\ stage = "waiting"
  /\ contexts' = contexts \ {worker, scheduler}
  /\ current' = IF current = scheduler THEN "none" ELSE current
  /\ worker' = "none" /\ scheduler' = "none" /\ workerPhase' = 0
  /\ IF memoryReady THEN Reset ELSE UNCHANGED <<memoryVars, flatVars>>
  /\ stage' = "stopped"
  /\ UNCHANGED <<loopVars, config, resultVars>>

BootNext ==
  \/ ProbeInitialize \/ Loop \/ ProbeDone \/ MemoryBound \/ MemoryProbeDone
  \/ \E c \in Configurations : MemoryInitialize(c)
  \/ Services \/ SchedulerRefused \/ SchedulerReady \/ WorkerRefused \/ WorkerReady
  \/ SwitchToWorker \/ WorkerYields \/ DestroyWorker
  \/ Inspect \/ InitializeData \/ EnterProduct \/ Stop

(***************************************************************************)
(* Properties                                                              *)
(***************************************************************************)
MemoryUp == memoryReady /\ active /\ Len(bound) = Len(config)
MemoryDown == ~memoryReady /\ bound = <<>> /\ ~active /\ allocated = 0 /\ reserved = 0

\* Host contexts of the bootstrap's own; the stacks of guest threads are nobody's to
\* free before the process ends.
OwnContexts == contexts \cap {"scheduler", "worker"}

\* However start and stop end, the host is left in one of two states: the
\* whole core is up, or nothing is held at all; after stop it is nothing.
AllOrNothing ==
  /\ stage = "waiting" =>
       \/ MemoryUp /\ OwnContexts = {"scheduler"} /\ current = "scheduler" /\ scheduler = "scheduler" /\ worker = "none"
       \/ MemoryDown /\ contexts = {} /\ current = "none" /\ scheduler = "none" /\ worker = "none"
  /\ stage = "stopped" => MemoryDown /\ OwnContexts = {} /\ current = "none"

\* The guest's memory in the stages that lay it out, up to the first in which it stays as
\* it is: aliases share their bytes and nothing else does, and every access that is let
\* through stays in live host memory.
GuestMemoryCoherent ==
  stage \in DOMAIN After \cup {"scheduler"} => AliasesCoherent /\ AccessesAgree

\* The areas low memory tells the guest it may use: each is not empty and lies in one
\* piece of memory, and no two of them share a byte.
Areas == {<<lowMemory.mem1ArenaLo, lowMemory.mem1ArenaHi>>, <<lowMemory.mem2ArenaLo, lowMemory.mem2ArenaHi>>,
          <<lowMemory.ipcBufferLo, lowMemory.ipcBufferHi>>, <<lowMemory.iosReservedLo, lowMemory.iosReservedHi>>}

AreasUsable ==
  /\ Cardinality(Areas) = 4
  /\ \A x \in Areas : x[1] < x[2] /\ GetPointer(x[1], x[2] - x[1]) # NoHost
  /\ \A x, y \in Areas : x # y =>
       \A a \in x[1] .. x[2] - 1, b \in y[1] .. y[2] - 1 : HostPointer(a) # HostPointer(b)

\* Translated code runs only over initialized data sections in live memory, on the
\* scheduler's context or the stack of a guest thread, with the trial worker gone; the
\* areas published to it before are usable; and the report of a run that got there says
\* so.
GuestRunsOnReadyCore ==
  /\ stage = "execution" => AreasUsable
  /\ stage = "guest" => /\ MemoryUp /\ OwnContexts = {"scheduler"} /\ current \in contexts
                        /\ stopPoint = "DataSectionsInitialized"
  /\ stopPoint \in {"Executed", "ExecutionFailed"} => product.compatible /\ product.initializer /\ product.runner
=============================================================================
