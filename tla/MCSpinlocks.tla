------------------------------ MODULE MCSpinlocks -----------------------------
(***************************************************************************)
(* The three spinlocks of sync/spinlock.rs that have an order or a state   *)
(* beside the lock word, in one run.  They share nothing: the initial      *)
(* state says which of them is used, and the others stay as they were      *)
(* created, where their fairness asks for nothing.                         *)
(***************************************************************************)
EXTENDS TicketLock, Sequences

CONSTANTS McsThreads, NoNode, CPUs, Locks

ASSUME NoNodeAssumption == NoNode \notin McsThreads
ASSUME LocksAssumption == Locks \subseteq Nat

VARIABLES
  kind,                                                   \* the lock in use
  tail, mcsNext, mcsLocked, mcsPc, prev, ahead,           \* QueuedSpinlock
  irq, active, locked, irqPc, want, saved, guards         \* IrqSpinlock

mcsVars == <<tail, mcsNext, mcsLocked, mcsPc, prev, ahead>>
irqVars == <<irq, active, locked, irqPc, want, saved, guards>>

Mcs == INSTANCE McsLock
  WITH Threads <- McsThreads, next <- mcsNext, locked <- mcsLocked, pc <- mcsPc

Irq == INSTANCE IrqSpinlock WITH pc <- irqPc

MCInit == kind \in {"ticket", "mcs", "irq"} /\ Init /\ Mcs!Init /\ Irq!Init

MCNext ==
  \/ kind = "ticket" /\ Next     /\ UNCHANGED <<kind, mcsVars, irqVars>>
  \/ kind = "mcs"    /\ Mcs!Next /\ UNCHANGED <<kind, vars, irqVars>>
  \/ kind = "irq"    /\ Irq!Next /\ UNCHANGED <<kind, vars, mcsVars>>

MCSpec ==
  /\ MCInit /\ [][MCNext]_<<kind, vars, mcsVars, irqVars>>
  /\ Fairness /\ Mcs!Fairness

-----------------------------------------------------------------------------
\* The nodes of the queue lock stay a queue through every race of lock() with
\* unlock().
McsQueueIsLinked == Mcs!QueueIsLinked

\* The queue lock serves in the order in which the tail was swapped.
McsServesInOrder == Mcs!ServesInOrder

\* Whoever swaps itself into the queue gets the lock.
McsEveryWaiterEnters == Mcs!EveryWaiterEnters

\* A handler never spins on a lock of the task it interrupted.
IrqNoSelfDeadlock == Irq!NoSelfDeadlock

\* The interrupt flag comes back as the outermost caller had it.
IrqFlagIsRestored == Irq!FlagIsRestored
===============================================================================
