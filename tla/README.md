# WiiCompiled-Switch: specifications, model checking and proofs

WiiCompiled-Switch runs a statically translated Wii program (Mario Kart Wii,
PAL) as a native Switch homebrew application.  The translated PowerPC code is
linked with a runtime whose *HLE handlers* replace those SDK functions the
translator leaves out: threads, mutexes, message queues, NAND files, video.
This directory models that runtime in TLA+, checks the models with TLC, and
proves with TLAPS, for every value of the constants, all but one of the
properties that the passing runs check, refinements included.

Contents: 1 the system, 2 modules, 3 runs, 4 findings, 5 proofs, 6 fairness and
assumptions, 7 what is left out, 8 plan, 9 how to run.

## 1. The system

### 1.1 Parts and how they meet

```
 main.cpp ─ probes ─ runtime_bootstrap::start ─ Memory::Init ─ GuestFlat::initialize
                          │                          (guest address space)
                          ├─ HostContext scheduler + worker      (host stacks)
                          └─ translated product: data, first function
                                        │ direct calls, table of indirect calls
     translated SDK and game code ──────┴──> HLE handlers (KnownNativeCpuCall<addr>)
        OSCreateThread  OSResumeThread  OSSleepThread  SelectThread  OSLoadContext
        OSLockMutex  OSUnlockMutex  OSReceiveMessage  NAND*Async  VI*  DVD*
                                        │
                     guest words in memory  +  host state (fibers, files, queues)
```

One host thread executes everything.  A handler therefore runs to its end
without interference, with one exception: `SelectThread` may leave its host
stack, and whoever called it goes on only when its thread is selected again.
That is where the interleavings of this program come from: `OSSleepThread`,
`OSResumeThread`, `OSReceiveMessage`, translated `OSWakeupThread` and every NAND
callback contain such a point; so does translated code that DVDInit calls, and
any call whose guards wait on the host stack to put registers back.  The SDK functions around the native handlers
(`OSWakeupThread`, `OSSuspendThread`, `OSExitThread`, `OSSendMessage`,
`OSDisableScheduler`, ...) are translated guest code that is not in this
repository; the models have them as actions marked *external*, written from how
the handlers in `src/` share guest words with them.

### 1.2 Inventory

| part (source) | state | operations | hard behaviour | correct when |
|---|---|---|---|---|
| scheduler (`os_select_thread`, `os_resume_thread`, `os_sleep_thread`, `os_create_thread`) | OSThread words, 32 run queues, wait queues, pending mask, reschedule request, disable count, current thread and context, thread list | create, resume, sleep, select | handlers leave half-way; words that repeat each other; any legal call order | no thread lost or linked twice, mask exact, most urgent thread runs, requests noticed |
| link words (`LinkThreadOnRunQueue`, `InsertThreadIntoQueueByPriority`, `RemoveThreadFromQueue`, `PopThreadQueueHead`) | head, tail, next, prev, queue | insert, remove, pop | five helpers in three files keep one structure | links represent the sequences |
| fibers (`switch_guest_fiber`, `host_context_switch`, `os_load_context`) | records, host stacks, shared CpuContext, interrupt flag | create, register, switch, load context, destroy | stack allocation fails, thread re-created, dispatch on foreign stack | each thread keeps registers, interrupt flag, identity |
| callbacks (`switch_nand_callback_runtime`, NAND traits) | callback queue, drain depth, scratch context per pump | asynchronous operation, pump, callback returns | callbacks issue operations, callbacks switch threads | once, in order, not nested, all in the end |
| mutexes (`switch_mutex_hle_traits`) | owner, count, held list of each thread | lock, unlock | recursion, out-of-order unlock, exit and re-creation | exclusion; lists are what was locked |
| message queues (`os_receive_message`, `switch_os_hle_traits`) | ring of slots, two wait queues | init, receive (send external) | blocking, wakeups, wrap, races for one slot | first-in first-out, no lost wakeup |
| guest memory (`horizon_guest_flat`, `memory_switch_slice`) | regions, sections, views, reservation | initialize, shutdown, Init, Reset, GetPointer | every allocation may fail; views alias | nothing leaked, aliases coherent, accesses inside |
| bootstrap (`main`, `runtime_bootstrap`, handoffs) | stage, contexts, product, stop point | probes, start, stop | partial failure, optional product | all or nothing; guest code only on a complete core |
| NAND files (`switch_nand_open_runtime`) | handle table, file infos, host streams | open, read, close | failures half-way, reopening, stale infos | an info reads its file; a closed one nothing |
| video (`vi_init`, `vi_configure`) | pending and committed registers, retrace clock, callbacks | init, configure, flush, wait | switches in the middle of a retrace, late host | what was flushed is shown, callbacks belong to their retrace, deadlines do not drift |
| drive (`switch_dvd*`) | called flag, static guard, drive state | init, inquiry | translated code inside the call, switches and exits in it | the drive is reset once |
| indirect dispatch (`switch_indirect_dispatch`) | published table | lookup, preserving call | binary search over pages of segments, misses | the function asked for runs, or none is listed |
| calls of translated code (`abi_bridge.h`) | guards on the host stack, one CpuContext | direct and indirect call, return, blocker | switches between a call and its return | the caller finds its nonvolatile registers |
| boot low memory (`wii_boot_low_memory`) | arena, IPC and IOS words | seed | subtraction from the end of MEM2 | areas are disjoint and in memory |
| crash diagnostics (`fast_track_crash_diagnostics`, `local_first_translated_execution`) | files on the card, counters, once-only flags | note a dispatch, report, exception, progress | power loss between system calls, failing calls, files of an earlier boot | a heartbeat vouches only for records of its own run, no file mixes two, the loss is bounded |

Parts with no behaviour of their own (register stubs, compile-time marshalling,
platform start-up, scripts, probes) are listed in `PROJECT.json` with reasons.

## 2. Modules

* **RunQueues** — the queues as sequences: `InsertByPriority`,
  `RemoveFromQueue`, `LinkOnRunQueue`, `Cntlzw`.  Pure operators on the record
  of words the handlers share.
* **OSScheduler** — one action per handler.  `Words` is what SelectThread reads
  and writes; a handler computes the words it leaves and hands them to
  `SelectThread` or publishes them.  A handler that can be left is split there:
  `SleepThread` ends in `SelectThread`, `SleepReturns` is the part behind it,
  taken when the sleeper is `running` again.  `parked[t]` is the argument of the
  OSSleepThread call `t` is in.  A callback is `EnterCallback`/`LeaveCallback`:
  the current context is then the exception context and SelectThread declines.
* **LinkedList**, **ThreadQueue** — the head/tail/next/prev words.  Every action
  of ThreadQueue is one helper call; `lists` is a history variable that runs the
  RunQueues operator beside it.  So OSScheduler may speak of sequences.
* **OSMutex** — `OSLockMutex`, `OSUnlockMutex` over LinkedList, with creation,
  exit and switching around them.
* **OSMessageQueue** refines **BoundedChannel** — the ring and both wait queues.
* **GuestFiber** refines **Coroutines** — records, host stacks as sequences of
  the threads whose frames are on them, the one CpuContext, and the OSLoadContext
  fallback.  `SwitchTo` is a function of the fiber words (`Machine`), composed of
  `TargetLoaded`, `Suspended`, `Entered`, `Continued` as the code is.
* **DeferredCallbacks** — the callback queue and the pump, with just enough of
  GuestFiber (who points at which CpuContext) to say what a switch inside a
  callback does.
* **GuestFlatMemory**, **MemorySlice** (extends it), **RuntimeBootstrap**
  (extends both) — the address space scaled to segments of `2 * Half` cells; one
  action per failure point; the bootstrap drives the loops of `initialize`
  through `table`, `next` and `phase`, and stores the words of low memory
  (`PinnedLayout`) before the data sections.
* **IndirectDispatch** — the generated table and the search through it, as pure
  operators: `FindEntry` is the lookup, `LowerBound` its binary search written as
  a recursive function, `Generated` the table the emitter writes for a set of
  functions.
* **GuestExecution** (extends RuntimeBootstrap and IndirectDispatch) — what
  happens while `stage` is `"guest"`: a host stack is a sequence of calls, each with
  the registers its guards kept; `Return` runs the guards; `SwitchThread` and
  `EnterFiber` change the host stack with one CpuContext for all; DVDInit is split
  where it enters translated code.  `Spec` of the whole host program is here.
* **FastTrackDiagnostics** — the card as `files[path]` with what a reader would
  find now and the contents that may be left after a power loss (`kept`).  A handler
  puts one job into `todo` for each file it has to deal with: the path, the system
  calls that are left, the record they write.  Each call then succeeds or fails on its
  own, and the process may end between any two.  `CardTellsOneRun` speaks of all a reader
  may find afterwards (`kept`), not only of what is there now.  `noted` is a history: for the first
  record, the last record and the trace, the dispatches of this boot that file is for.
* **NandFiles** — table, infos, streams and path normalisation: `Resolved` is the loop
  over the parts with its stack, `Meaning` says without a stack which names stand.
* **ViRetrace** — pending and shown settings, the SDK's words, the deadline clock.
  `VIWaitForRetrace` is split where it enters guest code: the retrace itself, then
  `Woken` behind OSWakeupThread, then `CallbackReturns` behind each callback.
* **QueueTheorems** — facts about sequences; **OSSchedulerProofs**,
  **GuestListsProofs** (LinkedList, ThreadQueue and OSMutex), **OSMessageQueueProofs**,
  **GuestFiberProofs**, **GuestExecutionProofs** (with memory, bootstrap and dispatch),
  **DeviceProofs** (DeferredCallbacks, NandFiles, ViRetrace),
  **FastTrackDiagnosticsProofs** — the proofs (section 5).
* **MC\*** — the instances for TLC.  MCGuestLists runs ThreadQueue and OSMutex, the
  two users of LinkedList, in one run: they share no word, so one moves and the
  other rests.  MCDevices has NandFiles and ViRetrace, which share none either, with a
  specification for each.

A definition called "Faulty variant" is not part of a model: it is what a
plausible mistake in the named code would be, and putting it in place of the real
definition makes the property named with it in `PROJECT.json` fail.

How the modules stand on each other: OSScheduler decides *whom* to select;
GuestFiber takes any live thread and shows *how* it continues; OSMutex,
OSMessageQueue, DeferredCallbacks and GuestExecution let any awake thread run, which
includes every choice the scheduler makes.

## 3. Runs

| run | instance | what is checked |
|---|---|---|
| scheduler | 3 threads, 2 wait queues, 3 priorities, suspend counts to 2, disable nesting 1; symmetric in the threads | types, single linking, queue contents, exact mask, nobody lost, code executes only for the one RUNNING thread, no missed reschedule, wait queue order, exact thread list; steps: most urgent selected, preemption only for more urgent, first come first served |
| guest_lists | 4 queued threads, 2 run queues, 1 wait queue; 3 owners, 3 mutexes, recursion 2, stale storage | link words represent the sequences; held lists represent what was locked; owner, list, count and depth agree |
| messages | 4 threads, 2 slots, 5 messages | no lost wakeup; refinement of BoundedChannel |
| fibers | 3 threads, 3 records, 3 spare host stacks, refusals at any time | handles owned by one record, interrupt mirror; while nothing was refused: identity, no abort but two of a default thread that never switched (it yields, or finds no record), refinement of Coroutines |
| callbacks | 3 threads, 4 operations, limit 2, any callback dropped for want of memory | order and no nesting, registers kept while callbacks do not switch, drained on return, every callback runs (liveness) |
| guest_execution | 5 region tables with every failure point, every kind of product and 5 dispatch tables, 2 host stacks, calls 2 deep (3 through DVDInit), 2 nonvolatile registers of 2 values | resources accounted, guest memory coherent, all-or-nothing, guest code on a ready core; every call reaches its target, the caller keeps its registers, the drive is initialized once |
| nand_files | 2 infos, 5 paths (two of one file, parents above the root, a directory), 3 opens | an open info reads its file from where it was, a closed one reaches nothing |
| video | 2 threads, 1 frame buffer, 2 retraces, clock to 4, intervals 2 and 1; symmetric in the threads | flushed settings shown, callbacks numbered, pace of the deadlines |
| diagnostics | 2 boots, 6 dispatches, 4 trace entries, stride 3, 1 failing call; power lost or process closed between any two system calls | after any end of the process: no file mixes two boots, what a heartbeat of this boot vouches for is of this boot; while it runs nothing of an earlier boot is left; trace and records survive |
| fibers_identity (2 records), callbacks_clobber, nand_close_failure | as above | violated: section 4 |

Why the bounds are enough.  Scheduler: with three threads one can run, one be
queued ahead of and one behind another; two wait queues tell "a queue" from "the
queue"; three priorities give less, equal and more urgent; a suspend count of two
tells "resumed" from "still suspended".  The theorems of section 5 drop all of
these bounds.  Thread queues: in a list of four, a member can have a predecessor
and a successor that are not the ends.  Mutexes: three make a held list with a
middle; recursion two tells the last unlock from another.  Messages: two slots
wrap, two receivers can race for one message while others send.  Fibers: three
threads and a spare stack let a re-created thread meet a stack in use; a full
record table has the effect of a refused stack, which may happen at any time.  Callbacks:
four operations let callbacks issue callbacks while another thread has one queued,
and with a limit of two (64 in the code) a chain outlives its pump and meets the
operation that takes the rest.
Memory: regions of three cells over pages of two make every rounding case;
the tables contain views of different sizes, an empty region, a split MEM1, more
sections than there are, and a region past the end.  Execution: two host stacks are
enough for one thread's guards to run between another's, a depth of two for a
call inside a call; the dispatch tables have a function on either end of a page,
an empty page between two, a second segment, a function missing and one without
an entry.  Diagnostics: four entries leave one after the dense stretch, which a phase
takes and a second phase does not; the first boot leaves every combination of
files behind for the second.  NAND: three opens of two
infos reopen, interleave and close in every order.  Video: two retraces overlap when
the thread of the first is held up in OSWakeupThread or a callback; a clock that may
pass both deadlines before either retrace makes the host late by more than one.

`CHECK_DEADLOCK FALSE` is given only for guest_execution and diagnostics (the process
ends; the boots and dispatches are bounded) and the NAND runs (nothing is specified once a closed stream was used, and the number of
opens is bounded).

## 4. Findings

Three runs check what a comment or document of the repository says, and TLC
finds it violated.

* **fibers_identity** (`os_select_thread_hle_bridge.cpp:286`).  A thread whose
  host stack was refused is dispatched by OSLoadContext on the stack of the
  thread that is leaving.  Selecting that one again continues the newest frames
  of its stack, which are the other thread's.
* **callbacks_clobber** (`switch_guest_fiber.cpp:230`).  When a callback makes
  SelectThread switch, the scratch registers are saved as the thread's and
  restored into the shared CpuContext as well, over those of the code the pump
  interrupted.
* **nand_close_failure** (`switch_nand_open_runtime.cpp:213`).  If `fclose`
  reports an error the handle stays in the table though the stream is gone.

Seen on the way, without a run of their own: a default
thread that yields before any other switch aborts in OSLoadContext; the pump
leaves callbacks behind after 64 of a chain, and
`mkw_switch_pump_deferred_guest_callbacks` has no caller; the VI frame buffer slot
is filled once and never follows the guest again; an indirect call of a function
that exists only natively misses, because the table lists translated functions;
a thread that calls DVDInit while another is inside it returns at once with a drive
that is not ready, and if that other thread exits there the drive never is; `stop`
leaves the host stacks of guest threads allocated (`AllOrNothing` therefore speaks
of the bootstrap's own contexts); `DCZeroRange` computes its end modulo 2^32; a progress
file of an earlier boot stays beside a fallback one; an exception record may stand
beside files of an earlier boot if the process dies before its first dispatch.

`reset_liveness_files_once` does not wait for its unlinks to reach the card
(`fast_track_crash_diagnostics.cpp:209`).  After a loss of power a file that this process
had not written yet — the blocker, the exception, the record of `main` beside a heartbeat
from before `main` — may therefore be an earlier process's, beside this one's heartbeat.
No document promises otherwise, so this is a limit and not a finding; `CardTellsOneRun`
says what can be relied on: a heartbeat that shows `main` was reached, or dispatches after
it, lies beside the record of `main`, or the first, last and traced dispatches, of its own
boot.  A rewritten record may also be found empty, if power is lost between its truncation and its fsync.

## 5. Proofs

Of the 40 properties that the passing runs check, 39 are stated by a theorem; what the
theorems drop are the bounds of section 3.  Each rests on an inductive invariant that is
stronger than the properties, because these look only at the moments between handlers,
or at what a reader sees of a longer chain.

**The scheduler** (`OSSchedulerProofs`): all twelve properties, for every set of threads
and wait queues and every number of priorities, from `Invariance: Spec => []IInv`.  The
set of threads may be infinite.

Between handlers the words repeat each other exactly; inside a handler they do not: a
thread has been taken out of a queue and not yet put into another.  So `IInv` is built
from `Consistent(w, sus, T)`: the queues hold exactly the threads of `T` that belong in
them, each once, the mask names the nonempty ones, wait queues are in order.  Between
handlers it holds with `T = Threads`; while a handler has `t` in hand, with
`T = Threads \ {t}`.  Four kinds of lemma move between the two — take an unlinked
thread (`TakeUnlinked`), take a linked one (`TakeLinked`, `TakeHead`), change the words
of the thread in hand (`ChangeInHand`), put it back (`PutUnlinked`, `PutLinked`,
`PutByPriority`, `PutOnRunQueue`) — and every action is a short sequence of them.  The
scan of SelectThread never finds a dead head (`ScanDropsNobody`), which is what makes
the scan's clean-up harmless (were the last one dead, the code would switch to it).  Two more conjuncts cannot be seen in a single handler:
`Noticed` (a more urgent queued thread comes with a request) and `Executing` (the
thread that executes is RUNNING, or inside the SelectThread call of its own
OSSleepThread); `Booting` covers the time before the default thread exists.
`FifoWithinPriority` is a property of steps: `KeepsOrder` says of each queue operation
that two threads of one priority that are in the queue before and after it keep their
order, and each handler is a chain of such operations.

**The lists** (`GuestListsProofs`): `LinksRepresentLists`, `HeldListsRepresent`,
`OwnersExact`.  The lemmas about LinkedList come first: an operation on one list does
to the sequence it represents what its name says (`Represents` before and after), and
leaves every list alone none of whose words it writes.  `QueueInv` and `MutexInv` then
need only that no node is in two lists.  Stale words in the storage of a re-created
thread are outside every list, and thus harmless.

**Message queues** (`OSMessageQueueProofs`): `NoLostWakeup` and the refinement
`ImplementsChannel`.  The ring lemmas say what lies n slots behind a slot modulo the
capacity, and so that a send or a receive changes the sequence in the ring at one end.
`NumbersKept` keeps the number of a sleeping sender's message free.

**Fibers** (`GuestFiberProofs`): `HostsOwned`, `InterruptFlagMirrored`,
`OwnStacksRunAsThemselves` and the refinement `ImplementsCoroutines`.  `Owned` (no two
records name one stack) and `Homes` (a stack that was left names its owner as the one
that left it) hold whatever is refused; `Apart` (a stack holds the frames of its owner
alone) and the last two properties as long as no created thread was refused a stack.
The proof found a case that the run is too small for: if created threads have taken every
record before the default thread first switches, its registration fails and SelectThread
stops at the boundary SELECTTHREAD_REGISTER_MAIN_FIBER.  The property therefore names it.

**Translated code** (`GuestExecutionProofs`), in the layers of its module:

* *The search.*  `LowerBound` finds the first entry at or above an address.  It is a
  recursive function; that it has the value its equation says, and that this is the
  least index, is proved for the least interval for which it would fail.  With `Indexed`
  follows `CallsReachTheirTargets`.
* *Memory and bootstrap.*  `FlatInv` says of every moment of the loops of `initialize`
  and its roll-back which allocations are held and by which global; `StageInv` ties the
  stage of the bootstrap to them: `ResourcesAccounted`, `AllOrNothing`.
* *The layout.*  `LayoutInv` has one section for each key, as large as its regions,
  while the loops run; `TableInv` the regions that are published.  A guest address is
  looked up by the first byte, so `SameInSegment` and `BoundReaches` show that an access
  which passes the bound stays in one region and one section; `OverlapsAgree` that two
  ways to a byte are one.  This is `GuestMemoryCoherent`; `CoreInv` adds the words of low
  memory and what start has done before translated code runs: `GuestRunsOnReadyCore`.
* *Calls.*  `ExecInv` says that the registers kept in the guards of all host stacks and
  in all records are links of chains that end in the CpuContext of whoever executes;
  a switch exchanges the ends of two chains.  Hence `NonvolatilesKept`, an action
  property, and `DriveInitializedOnce`.

**Devices** (`DeviceProofs`).

* *Callbacks:* `DeliveredInOrder`, `DrainedOnReturn`, `KeptWhileConfined` from
  `OneOrder`, `OnePump` and `Confined`, explained in the module's header.
* *NAND files:* `ClosedInfoReachesNothing` and `OpenInfoReadsItsFile` from `Descriptors`
  (a descriptor in the table is below `nextFd`, is its stream's own number, and is the
  word of at most one info) and `Reads`.  The second needs that the table's path is what
  the guest's path means (`PathResolved`): a stack of parts, popped by each parent, ends
  with just those names that no parents behind them outnumber.  `Stacked` is the loop's
  invariant: the stack holds the names that stand, at rising places of the path, and of
  the name at depth d from the top on there are d more names than parents.  It is kept
  by each kind of part (`StackPushed`, `StackPopped`, `StackKept`); that the loop has it
  after every number of parts is proved for the least number at which it would fail.
* *Video:* `FlushedIsShown`, `CallbacksNumbered`, `PacedByDeadlines` from `Settled` and
  `Numbered`: whoever is inside VIWaitForRetrace has a retrace of its own, and has
  called of its callbacks those that come before its place.

**The diagnostics** (`FastTrackDiagnosticsProofs`): `CardTellsOneRun`, `RecordsSurvive`
and `TraceSurvives`, for every size of the trace, every stride and any number of boots
and failures, from `Inductive: Spec => []IInv`.  The properties look only at moments when
no unlink, or no call at all, is left; the handlers in between leave half-written files.
So `IInv` says of each file how far its calls have come.

* `Orderly`: what is left is unlinks, then whole jobs of different files; only the first
  job may be begun.  So a call disturbs one file only, and no job waits twice.
* `FileFresh`: the file's unlink is still to come, or all it holds is of this boot.
* `Will(p, r)`, of a rewritten file: its job waits untouched, or it is truncated, or it
  is written and may be lost, or it holds `r` whatever happens.  The milestones and the
  heartbeat are such files; `NoLater` relates the heartbeat to what the files of the
  milestones may hold now or later.
* `TraceStory`, of the trace: to be removed, its last line to be begun, written or synced,
  or done; then `Lasting`, that every content since the last fsync has all lines the
  code waits for (`Awaited`).  That fewer than one stride follow the last of these is
  arithmetic at the end.
* `Agreement`: what the statics (the once-only flags, the counters) say about the
  dispatches noted so far.  It decides which jobs a dispatch makes.

`CardTellsOneRun` needs a second layer, `Told`, because it speaks of `kept` at every
moment: a heartbeat is the last job of its handler (`BeatsLast`), so when it reaches the
card the milestones before it are synced; and what a heartbeat on the card vouches for
stays so (`Confirmed`: `main` and the first record have no job left, which the once-only
flags keep from coming back; the others are only ever replaced by records of this boot).
With the heartbeat written first it fails (the mutant of the run).

A failed call takes its file out of the claim, as `Failed` does in the properties; that
it leaves the claims on the other files alone is the other half of the proof.  The
assumption on the card is the external one of the module: calls on one path do not
change another, and unlink and O_TRUNC empty the file.

Only model-checked: `EveryCallbackRuns`, which is liveness under fairness, out of the
prover's reach.  (The three properties of the runs of section 4 do not hold.)

## 6. Fairness and assumptions

Only DeferredCallbacks states fairness, for `EveryCallbackRuns`: a callback whose
thread keeps getting the processor returns, and a thread that has a pump on its
stack is selected again, although more urgent threads come between (strong
fairness on both, `FairSpec`).  The first is the console's own rule for
completion code; the second is what SelectThread gives a ready thread once the
more urgent ones block.  Nothing else in the repository forces progress, so no
other liveness is claimed.

Assumed of the translated SDK code, because the runtime relies on it: it does not
suspend the current thread while the scheduler is disabled or a callback runs;
OSCreateThread gets storage of a thread that does not exist; OSExitThread gives
up the held mutexes; OSWakeupThread empties a wait queue head by head and then
reschedules.  OSSaveContext is abstracted by what SelectThread does with it: it
returns zero when control first comes through.  A translated function with a direct
call trait restores the integer registers itself, since only the floating-point ones
have a guard there, and an indirect record names all registers its function leaves changed.

Assumed of the translator, because the code only runs the table it emits: the table of
indirect calls lists its segments, pages and entries by address (`Indexed`), each with
one target.  `resolve` itself checks none of it.

Assumed of constants, where a proof needs it: distinct null values and natural bounds;
host names of different resources are different; the region tables and configurations
are typed and *well laid* (`WellLaid`: regions of MEM1 and MEM2 end in their segment, and
an address in two regions is in one section — `initialize` checks neither, and
`Memory::Config::WiiDefaults`, the only table the program uses, has both); the sizes of
low memory leave its areas room (`LowMemoryAssumption`, true of the addresses in
`wii_boot_low_memory.cpp`); the set of threads of a message queue is finite; PAL's
retrace interval is not below the other one (`VideoConstants`); a path and the data
directory are sequences of strings (`PathsTyped`); the dense stretch of the trace is longer
than the durable one, which is not empty, and shorter than the whole trace (`DiagnosticsAssumption`, as in
`fast_track_crash_diagnostics.cpp`).  TLC evaluates each in the run of its module.

Assumed of the SD card: after fsync a file is as it was then whatever happens; before,
it is one of the contents it had since; a process that is closed loses nothing that
was written.

## 7. What is left out

* Boundaries for unmapped guest words: the models start where memory is up, and
  the OSThread structures are mapped.
* OSResumeThread of a WAITING thread that holds a mutex with waiters: OSLockMutex
  aborts on contention, so no such thread exists (OSMutex).
* The state field of a fiber record beyond "empty", which is written and never
  read; the switch callback pointer, which no code sets to a routine that changes
  state.
* The interrupt state OSReceiveMessage saves and restores: GuestFiber's
  `InterruptFlagMirrored` covers it for every handler.
* Contents of memory and of files; string reading; report texts.
* NAND calls that fail without changing anything are not steps; an open that fails after
  `fopen` is one, and leaves a stream nobody closes.  A model stops at
  the first use of a stream after `fclose`, which the language leaves undefined.
* DVDLowInquiry: it resets the drive's queues and cancel words as DVDInit does,
  completes inside the call and never enters its callback, so with the queue contents
  abstracted it changes nothing GuestExecution has.
* The native functions with nothing but a return value, IPCCltInit, the special
  purpose registers, and the probes besides those of guest memory.
* The boot low-memory words that are constants with no relation to each other: disc
  header, clocks, console type.
* Nested dispatch through OSLoadContext as stack depth: nothing in the code bounds it.
* VIGetDTVStatus, a constant; the fields of VIConfigure's
  render mode beyond the TV format; the field parity.
* Region tables beyond `Memory::Config::WiiDefaults` are ones a `Memory::Config`
  can express; the program itself uses the default.

## 8. Plan

Done, in this order: scheduler; its proofs; link words; mutexes; messages;
fibers; callbacks; memory and bootstrap; NAND files; video; crash diagnostics and
their proof; indirect dispatch and the execution of translated code over the
bootstrap; low memory; DVDInit; the proofs of all of these; what the diagnostics leave
after a loss of power, and path resolution, for every input.

What could follow:

1. **Composition** of NandFiles with DeferredCallbacks: the result of an operation
   that was done at once is reported later.
2. **Abstract scheduler**: a priority scheduler without queues, refined by
   OSScheduler.

## 9. How to run

In this directory: `tlc -config MCOSScheduler.cfg MCOSScheduler` for a run
(names in `PROJECT.json`), `tlapm M.tla` for the proofs of a module M of section 5.
The runs nand_files, nand_close_failure and video are of MCDevices.
OSSchedulerProofs, GuestExecutionProofs and FastTrackDiagnosticsProofs take some minutes
each from nothing.
