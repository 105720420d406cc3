------------------------------ MODULE TicketLock ------------------------------
(***************************************************************************)
(* TicketSpinlock of sync/spinlock.rs.  lock() draws a ticket from the     *)
(* counter `next' and spins until `serving' shows it; dropping the guard   *)
(* advances `serving'.  Both counters are AtomicU32 and wrap: TicketMod    *)
(* stands for 2^32.  A spin iteration that reads another ticket changes    *)
(* nothing and is a stuttering step.                                       *)
(***************************************************************************)
EXTENDS Integers, FiniteSets

CONSTANTS
  Threads,    \* the contexts that use the lock
  TicketMod   \* the number of ticket values, 2^32 in the code

\* Each context is in line at most once, and there are far fewer contexts
\* than ticket values.
ASSUME TicketAssumption ==
  /\ IsFiniteSet(Threads)
  /\ TicketMod \in Nat \ {0}
  /\ Cardinality(Threads) <= TicketMod

VARIABLES
  serving,    \* the ticket that may hold the lock
  next,       \* the ticket the next caller draws
  pc,         \* where each thread is in lock(): "idle", "spin" or "held"
  ticket      \* the local variable of lock()

vars == <<serving, next, pc, ticket>>

Tickets == 0 .. (TicketMod - 1)

\* Mutated form of WrappingInc: a counter that does not wrap.
PlainInc(n) == n + 1

\* fetch_add(1) on an AtomicU32.
WrappingInc(n) == IF n = TicketMod - 1 THEN 0 ELSE n + 1

Init ==
  /\ serving = 0
  /\ next = 0
  /\ pc = [t \in Threads |-> "idle"]
  /\ ticket = [t \in Threads |-> 0]

\* Mutated form of TakeTicket: the ticket is the counter's new value.
TakeNextTicket(t) ==
  /\ pc[t] = "idle"
  /\ ticket' = [ticket EXCEPT ![t] = WrappingInc(next)]
  /\ next' = WrappingInc(next)
  /\ pc' = [pc EXCEPT ![t] = "spin"]
  /\ UNCHANGED serving

\* lock(): the ticket is drawn.
TakeTicket(t) ==
  /\ pc[t] = "idle"
  /\ ticket' = [ticket EXCEPT ![t] = next]
  /\ next' = WrappingInc(next)
  /\ pc' = [pc EXCEPT ![t] = "spin"]
  /\ UNCHANGED serving

\* Mutated form of Served: "my ticket or a later one is shown".
ServedOrPast(t) == serving >= ticket[t]

\* The condition that ends lock()'s spin loop.
Served(t) == serving = ticket[t]

\* lock(): the load that ends the spin loop.
SeeServing(t) ==
  /\ pc[t] = "spin"
  /\ Served(t)
  /\ pc' = [pc EXCEPT ![t] = "held"]
  /\ UNCHANGED <<serving, next, ticket>>

\* TicketSpinlockGuard::drop.
DropGuard(t) ==
  /\ pc[t] = "held"
  /\ serving' = WrappingInc(serving)
  /\ pc' = [pc EXCEPT ![t] = "idle"]
  /\ UNCHANGED <<next, ticket>>

Next == \E t \in Threads : TakeTicket(t) \/ SeeServing(t) \/ DropGuard(t)

Spec == Init /\ [][Next]_vars

(***************************************************************************)
(* A spinning context keeps running (interrupts do not migrate or suspend  *)
(* it for ever) and critical sections are finite.  No thread has to ask.   *)
(***************************************************************************)
Fairness == \A t \in Threads : WF_vars(SeeServing(t)) /\ WF_vars(DropGuard(t))

FairSpec == Spec /\ Fairness

-----------------------------------------------------------------------------
InLine  == {t \in Threads : pc[t] # "idle"}
Holders == {t \in Threads : pc[t] = "held"}

\* How many tickets lie between `from' and `to' going up and around.
Distance(from, to) == IF to >= from THEN to - from ELSE to - from + TicketMod

\* The ticket k places after n, for k up to TicketMod.
WrappingAdd(n, k) == IF n + k < TicketMod THEN n + k ELSE n + k - TicketMod

\* How many holders have to leave before t is served.
Turn(t) == Distance(serving, ticket[t])

Ahead == [t \in Threads |-> IF t \in InLine
                            THEN {u \in InLine : Turn(u) < Turn(t)}
                            ELSE {}]

Fifo == INSTANCE FifoLock WITH inLine <- InLine, ahead <- Ahead, holds <- Holders

-----------------------------------------------------------------------------
\* Both counters and all tickets are 32-bit values.
TypeOK ==
  /\ serving \in Tickets
  /\ next \in Tickets
  /\ pc \in [Threads -> {"idle", "spin", "held"}]
  /\ ticket \in [Threads -> Tickets]

\* No two threads have the data behind the lock at the same time.
MutualExclusion == \A t, u \in Holders : t = u

(***************************************************************************)
(* The threads in line hold the tickets from `serving' up to, and not      *)
(* including, `next', each exactly one: also when the counters have        *)
(* wrapped, and also when every ticket value is out (then next = serving). *)
(***************************************************************************)
TicketsAreDealt ==
  /\ \A t \in InLine : Turn(t) < Cardinality(InLine)
  /\ \A t, u \in InLine : ticket[t] = ticket[u] => t = u
  /\ \A t \in Holders : ticket[t] = serving
  /\ next = WrappingAdd(serving, Cardinality(InLine))

\* lock() and drop implement the lock that serves in order of arrival.
ServesInOrder == Fifo!Spec

\* Whoever draws a ticket is served.
EveryTicketIsServed == \A t \in Threads : pc[t] = "spin" ~> pc[t] = "held"
===============================================================================
