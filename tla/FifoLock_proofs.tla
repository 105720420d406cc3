---------------------------- MODULE FifoLock_proofs ---------------------------
(***************************************************************************)
(* Theorems about FifoLock: what an implementation of it gives its users,  *)
(* for any set of threads.                                                 *)
(***************************************************************************)
EXTENDS FifoLock, TLAPS

\* Mutual exclusion is not inductive: the order of the line is what makes it so.
IInv == TypeOK /\ LineIsOrdered

\* A new thread stands behind all others; the first one gets the lock.
LEMMA StepKeeps == IInv /\ [Next]_vars => IInv'
<1> SUFFICES ASSUME IInv, [Next]_vars PROVE IInv'
  OBVIOUS
<1> USE DEF IInv, TypeOK, LineIsOrdered
<1>1. ASSUME NEW t \in Threads, Request(t)  PROVE IInv'
  BY <1>1 DEF Request
<1>2. ASSUME NEW t \in Threads, Grant(t)  PROVE IInv'
  BY <1>2 DEF Grant
<1>3. ASSUME NEW t \in Threads, Release(t)  PROVE IInv'
  BY <1>3 DEF Release
<1>4. CASE UNCHANGED vars
  BY <1>4 DEF vars
<1>5. QED
  BY <1>1, <1>2, <1>3, <1>4 DEF Next

\* The line of a fair lock is a line: of two threads in it exactly one is ahead
\* of the other.
THEOREM LineAlwaysOrdered == Spec => [](TypeOK /\ LineIsOrdered)
<1>1. Init => IInv
  BY DEF Init, IInv, TypeOK, LineIsOrdered
<1>2. IInv => TypeOK /\ LineIsOrdered
  BY DEF IInv
<1>3. QED
  BY <1>1, <1>2, StepKeeps, PTL DEF Spec

\* Whatever implements FifoLock has at most one holder: TicketSpinlock and
\* QueuedSpinlock of sync/spinlock.rs.
THEOREM FifoMutualExclusion == Spec => []MutualExclusion
<1>1. TypeOK /\ LineIsOrdered => MutualExclusion
  BY DEF TypeOK, LineIsOrdered, MutualExclusion
<1>2. QED
  BY <1>1, LineAlwaysOrdered, PTL
===============================================================================
