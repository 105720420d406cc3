------------------------------ MODULE IrqSpinlock -----------------------------
(***************************************************************************)
(* IrqSpinlock of sync/spinlock.rs with the interrupt primitives of        *)
(* sync/mod.rs: several CPUs, on each of them a task and an interrupt      *)
(* handler that preempts it, all taking IrqSpinlocks.  lock() disables     *)
(* interrupts and then spins on the inner RawSpinlock; the guard remembers *)
(* whether interrupts were on and its drop puts that back after releasing. *)
(* Guards nest: they are dropped in the reverse of the order in which they *)
(* were taken (Rust's scope order), and locks are taken in one order.      *)
(***************************************************************************)
EXTENDS Integers, Sequences, SequencesExt

CONSTANTS
  CPUs,
  Locks     \* a set of numbers: their order is the order of nesting

VARIABLES
  irq,      \* the interrupt flag of each CPU
  active,   \* active[c]: CPU c runs its interrupt handler
  locked,   \* RawSpinlock.locked of each lock
  pc,       \* where each context is: "run" is outside the lock's code
  want,     \* the lock a context is taking, or the last one it took
  saved,    \* the local irq_enabled of lock() and try_lock()
  guards    \* the live guards of each context, the innermost last

vars == <<irq, active, locked, pc, want, saved, guards>>

Contexts == CPUs \X {"task", "handler"}
Cpu(x)   == x[1]

\* The context that has the CPU.
Running(x) == active[Cpu(x)] <=> x[2] = "handler"

Held(x) == {guards[x][i].lock : i \in DOMAIN guards[x]}

Init ==
  /\ irq = [c \in CPUs |-> TRUE]
  /\ active = [c \in CPUs |-> FALSE]
  /\ locked = [l \in Locks |-> FALSE]
  /\ pc = [x \in Contexts |-> "run"]
  /\ want \in [Contexts -> {CHOOSE l \in Locks : TRUE}]
  /\ saved = [x \in Contexts |-> FALSE]
  /\ guards = [x \in Contexts |-> <<>>]

Goto(x, from, to) == pc[x] = from /\ pc' = [pc EXCEPT ![x] = to]

\* The handler is entered through an interrupt gate, which clears the flag.
Interrupt(c) ==
  /\ irq[c] /\ ~active[c]
  /\ active' = [active EXCEPT ![c] = TRUE]
  /\ irq' = [irq EXCEPT ![c] = FALSE]
  /\ UNCHANGED <<locked, pc, want, saved, guards>>

\* The handler returns; the flag is popped with the interrupted context.
ReturnFromInterrupt(c) ==
  /\ active[c]
  /\ pc[<<c, "handler">>] = "run" /\ guards[<<c, "handler">>] = <<>>
  /\ active' = [active EXCEPT ![c] = FALSE]
  /\ irq' = [irq EXCEPT ![c] = TRUE]
  /\ UNCHANGED <<locked, pc, want, saved, guards>>

\* disable_interrupts returns the flag it found.
disable_interrupts(x) ==
  /\ saved' = [saved EXCEPT ![x] = irq[Cpu(x)]]
  /\ irq' = [irq EXCEPT ![Cpu(x)] = FALSE]

\* Mutated form of restore_interrupts: the flag is always set.
EnableInterrupts(x, enabled) == irq' = [irq EXCEPT ![Cpu(x)] = TRUE]

\* restore_interrupts(enabled) sets the flag when it was set before.
restore_interrupts(x, enabled) == irq' = [irq EXCEPT ![Cpu(x)] = enabled \/ @]

\* lock() or try_lock() of l: interrupts go off first.
Begin(x, l, call) ==
  /\ Running(x)
  /\ \A k \in Held(x) : k < l
  /\ Goto(x, "run", call)
  /\ disable_interrupts(x)
  /\ want' = [want EXCEPT ![x] = l]
  /\ UNCHANGED <<active, locked, guards>>

\* The compare_exchange of lock() or try_lock() succeeds.
Acquire(x) ==
  /\ Running(x)
  /\ ~locked[want[x]]
  /\ \/ Goto(x, "lock", "run")
     \/ Goto(x, "try_lock", "run")
  /\ locked' = [locked EXCEPT ![want[x]] = TRUE]
  /\ guards' = [guards EXCEPT ![x] = Append(@, [lock |-> want[x], irq_enabled |-> saved[x]])]
  /\ UNCHANGED <<irq, active, want, saved>>

\* Mutated form of TryFails: a failed try_lock() leaves interrupts off.
TryFailsUnrestored(x) ==
  /\ Running(x)
  /\ locked[want[x]]
  /\ Goto(x, "try_lock", "run")
  /\ UNCHANGED <<irq, active, locked, want, saved, guards>>

\* The compare_exchange of try_lock() fails: restore and return None.
TryFails(x) ==
  /\ Running(x)
  /\ locked[want[x]]
  /\ Goto(x, "try_lock", "run")
  /\ restore_interrupts(x, saved[x])
  /\ UNCHANGED <<active, locked, want, saved, guards>>

\* IrqSpinlockGuard::drop, first the lock ...
DropUnlock(x) ==
  /\ Running(x)
  /\ guards[x] # <<>>
  /\ Goto(x, "run", "drop")
  /\ locked' = [locked EXCEPT ![Last(guards[x]).lock] = FALSE]
  /\ UNCHANGED <<irq, active, want, saved, guards>>

\* ... then the interrupt flag.
DropRestore(x) ==
  /\ Running(x)
  /\ Goto(x, "drop", "run")
  /\ restore_interrupts(x, Last(guards[x]).irq_enabled)
  /\ guards' = [guards EXCEPT ![x] = Front(@)]
  /\ UNCHANGED <<active, locked, want, saved>>

Next ==
  \/ \E c \in CPUs : Interrupt(c) \/ ReturnFromInterrupt(c)
  \/ \E x \in Contexts, l \in Locks, call \in {"lock", "try_lock"} : Begin(x, l, call)
  \/ \E x \in Contexts : Acquire(x) \/ TryFails(x) \/ DropUnlock(x) \/ DropRestore(x)

Spec == Init /\ [][Next]_vars

-----------------------------------------------------------------------------
\* A live guard whose lock is not released yet.
Owns(x, l) == l \in Held(x) /\ ~(pc[x] = "drop" /\ Last(guards[x]).lock = l)

\* A handler never spins on a lock that the task it interrupted holds: that
\* task cannot run to release it.  This is what IrqSpinlock exists for.
NoSelfDeadlock ==
  \A c \in CPUs : active[c] =>
    \A l \in Locks : Owns(<<c, "task">>, l) =>
      ~(pc[<<c, "handler">>] = "lock" /\ want[<<c, "handler">>] = l)

\* Nested guards and failed try_locks leave the flag as the outermost caller
\* had it: on in a task without guards, off in a handler.
FlagIsRestored ==
  \A x \in Contexts : Running(x) /\ pc[x] = "run" /\ guards[x] = <<>> =>
    irq[Cpu(x)] = (x[2] = "task")
===============================================================================
