------------------------------- MODULE FifoLock -------------------------------
(***************************************************************************)
(* What the fair locks of sync/spinlock.rs promise their callers: at most  *)
(* one thread holds the lock, and the lock is handed out in the order in   *)
(* which the threads asked for it.  TicketLock and McsLock implement this  *)
(* specification.                                                          *)
(***************************************************************************)
CONSTANT Threads

VARIABLES
  inLine,   \* the threads that asked for the lock and have not released it
  ahead,    \* ahead[t]: the threads in line that asked before t did
  holds     \* the threads in line that hold the lock

vars == <<inLine, ahead, holds>>

Init ==
  /\ inLine = {}
  /\ ahead = [t \in Threads |-> {}]
  /\ holds = {}

\* t joins the line behind everybody who is in it.
Request(t) ==
  /\ t \notin inLine
  /\ inLine' = inLine \cup {t}
  /\ ahead' = [ahead EXCEPT ![t] = inLine]
  /\ UNCHANGED holds

\* Nobody is ahead of t: the lock is its.
Grant(t) ==
  /\ t \in inLine \ holds
  /\ ahead[t] = {}
  /\ holds' = holds \cup {t}
  /\ UNCHANGED <<inLine, ahead>>

\* t leaves the line; nobody waits for it any more.
Release(t) ==
  /\ t \in holds
  /\ inLine' = inLine \ {t}
  /\ ahead' = [u \in Threads |-> ahead[u] \ {t}]
  /\ holds' = holds \ {t}

Next == \E t \in Threads : Request(t) \/ Grant(t) \/ Release(t)

Spec == Init /\ [][Next]_vars

-----------------------------------------------------------------------------
TypeOK ==
  /\ inLine \subseteq Threads
  /\ ahead \in [Threads -> SUBSET Threads]
  /\ holds \subseteq inLine

\* The lock has at most one holder.
MutualExclusion == \A t, u \in holds : t = u

\* Of two threads in line exactly one asked first, and only the threads in
\* line are waited for.
LineIsOrdered ==
  /\ \A t \in Threads : ahead[t] \subseteq inLine \ {t}
  /\ \A t, u \in inLine : t # u => (t \in ahead[u] <=> u \notin ahead[t])
  /\ \A t \in holds : ahead[t] = {}
===============================================================================
