----------------------------- MODULE Coroutines -----------------------------
(***************************************************************************)
(* What guest code may rely on when threads share one processor: each      *)
(* thread has registers and an interrupt flag of its own, which change     *)
(* only while it executes.  Module GuestFiber implements this with host    *)
(* stacks and one shared CpuContext.                                       *)
(***************************************************************************)
EXTENDS Naturals

CONSTANTS
  Threads,   \* guest threads
  Main,      \* the thread that executes at start-up
  MaxWork    \* the register contents of a thread are counted modulo this

VARIABLES
  alive,      \* threads that were created and did not exit
  executing,  \* the thread whose code runs
  regs,       \* the register contents each thread sees
  irqs        \* the interrupt-enabled flag each thread sees

vars == <<alive, executing, regs, irqs>>

\* Registers are told apart by their owner and by how often it changed them.
Registers == [owner : Threads, work : 0 .. MaxWork - 1]

Fresh(t) == [owner |-> t, work |-> 0]

\* What a thread's own code does to the registers.
Worked(r) == [r EXCEPT !.work = (@ + 1) % MaxWork]

Init ==
  /\ alive = {Main}
  /\ executing = Main
  /\ regs = [t \in Threads |-> Fresh(t)]
  /\ irqs = [t \in Threads |-> t = Main]

\* A created thread starts with fresh registers, interrupts disabled.
Create(t) ==
  /\ t \notin alive
  /\ alive' = alive \cup {t}
  /\ regs' = [regs EXCEPT ![t] = Fresh(t)]
  /\ irqs' = [irqs EXCEPT ![t] = FALSE]
  /\ UNCHANGED executing

Work ==
  /\ regs' = [regs EXCEPT ![executing] = Worked(@)]
  /\ UNCHANGED <<alive, executing, irqs>>

SetInterrupts(b) ==
  /\ irqs' = [irqs EXCEPT ![executing] = b]
  /\ UNCHANGED <<alive, executing, regs>>

\* The processor goes to a live thread; the one that left may have exited.
Transfer(t) ==
  /\ t \in alive
  /\ executing' = t
  /\ \/ alive' = alive
     \/ t # executing /\ alive' = alive \ {executing}
  /\ UNCHANGED <<regs, irqs>>

Next ==
  \/ \E t \in Threads : Create(t) \/ Transfer(t)
  \/ Work
  \/ \E b \in BOOLEAN : SetInterrupts(b)

Spec == Init /\ [][Next]_vars
=============================================================================
