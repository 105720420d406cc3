---------------------------- MODULE Spinlocks_proofs --------------------------
(***************************************************************************)
(* Theorems about the spinlocks of sync/spinlock.rs, for any sets of       *)
(* threads, CPUs and locks and any width of the tickets.  TicketLock and   *)
(* McsLock implement FifoLock; IrqSpinlock keeps interrupts off while a    *)
(* task is inside.  The names of the last two have the prefix Mcs or Irq   *)
(* of their instance in MCSpinlocks.                                       *)
(***************************************************************************)
EXTENDS MCSpinlocks, FiniteSetTheorems, SequenceTheorems, TLAPS

\* serving, next and every ticket stay 32-bit values (the fetch_adds of
\* TicketSpinlock::lock and TicketSpinlockGuard::drop wrap).
THEOREM TypeCorrect == Spec => []TypeOK
<1>1. Init => TypeOK
  BY TicketAssumption DEF Init, TypeOK, Tickets
<1>2. TypeOK /\ [Next]_vars => TypeOK'
  <2> SUFFICES ASSUME TypeOK, [Next]_vars
               PROVE  TypeOK'
    OBVIOUS
  <2> USE TicketAssumption DEF TypeOK, Tickets
  <2>1. ASSUME NEW t \in Threads, TakeTicket(t)
        PROVE  TypeOK'
    BY <2>1 DEF TakeTicket, WrappingInc
  <2>2. ASSUME NEW t \in Threads, SeeServing(t)
        PROVE  TypeOK'
    BY <2>2 DEF SeeServing
  <2>3. ASSUME NEW t \in Threads, DropGuard(t)
        PROVE  TypeOK'
    BY <2>3 DEF DropGuard, WrappingInc
  <2>4. CASE UNCHANGED vars
    BY <2>4 DEF vars
  <2>5. QED
    BY <2>1, <2>2, <2>3, <2>4 DEF Next
<1>3. QED
  BY <1>1, <1>2, PTL DEF Spec

-----------------------------------------------------------------------------
\* The set of threads in line is finite and not larger than the number of
\* ticket values.
LEMMA LineIsFinite ==
  /\ IsFiniteSet(InLine)
  /\ Cardinality(InLine) \in Nat
  /\ Cardinality(InLine) <= TicketMod
  BY FS_Subset, FS_CardinalityType, TicketAssumption DEF InLine

\* A thread that is not in line leaves a ticket value free.
LEMMA LineHasRoom ==
  ASSUME NEW t \in Threads, t \notin InLine
  PROVE  Cardinality(InLine) < TicketMod
<1>1. /\ IsFiniteSet(Threads \ {t})
      /\ Cardinality(Threads \ {t}) = Cardinality(Threads) - 1
  BY FS_RemoveElement, TicketAssumption
<1>2. InLine \subseteq Threads \ {t}
  BY DEF InLine
<1>3. Cardinality(InLine) <= Cardinality(Threads) - 1
  BY <1>1, <1>2, FS_Subset
<1>4. QED
  BY <1>3, LineIsFinite, FS_CardinalityType, TicketAssumption

\* Drawing a ticket appends it to the tickets that are out.
LEMMA TakeTicketDeals ==
  ASSUME TypeOK, TicketsAreDealt, NEW t \in Threads, TakeTicket(t)
  PROVE  /\ TicketsAreDealt'
         /\ InLine' = InLine \cup {t}
         /\ t \notin InLine
         /\ Turn(t)' = Cardinality(InLine)
         /\ \A u \in InLine : Turn(u)' = Turn(u)
<1> DEFINE k == Cardinality(InLine)
<1>1. t \notin InLine /\ InLine' = InLine \cup {t}
  BY DEF TakeTicket, TypeOK, InLine
<1>2. k \in Nat /\ k < TicketMod /\ IsFiniteSet(InLine)
  BY <1>1, LineIsFinite, LineHasRoom
<1>3. Cardinality(InLine') = k + 1
  BY <1>1, <1>2, FS_AddElement
<1>4. \A u \in InLine : ticket'[u] = ticket[u] /\ Turn(u)' = Turn(u)
  BY <1>1 DEF TakeTicket, TypeOK, InLine, Turn, Distance
<1>5. ticket'[t] = next /\ serving' = serving
  BY DEF TakeTicket, TypeOK
<1>6. Turn(t)' = k
  BY <1>2, <1>5, TicketAssumption
  DEF TypeOK, Tickets, TicketsAreDealt, WrappingAdd, Turn, Distance
<1>7. \A u \in InLine : Turn(u) < k
  BY DEF TicketsAreDealt
<1>8. \A u \in InLine : Turn(u) \in Int
  BY TicketAssumption DEF TypeOK, Tickets, InLine, Turn, Distance
<1>9. \A u \in InLine' : Turn(u)' < k + 1
  BY <1>1, <1>2, <1>4, <1>6, <1>7, <1>8
<1>10. \A u \in InLine : ticket'[u] # ticket'[t]
  <2> SUFFICES ASSUME NEW u \in InLine, ticket'[u] = ticket'[t]
               PROVE  FALSE
    OBVIOUS
  <2>1. Turn(u)' = Turn(t)'
    BY DEF Turn
  <2>2. QED
    BY <2>1, <1>2, <1>4, <1>6, <1>7
<1>11. \A u, v \in InLine' : ticket'[u] = ticket'[v] => u = v
  BY <1>1, <1>4, <1>10 DEF TicketsAreDealt
<1>12. \A u \in Holders' : ticket'[u] = serving'
  BY <1>5 DEF Holders, TicketsAreDealt, TakeTicket, TypeOK
<1>13. next' = WrappingAdd(serving', k + 1)
  BY <1>2, <1>5, TicketAssumption
  DEF TakeTicket, TypeOK, Tickets, TicketsAreDealt, WrappingInc, WrappingAdd
<1>14. TicketsAreDealt'
  BY <1>3, <1>9, <1>11, <1>12, <1>13 DEF TicketsAreDealt, WrappingAdd
<1>15. QED
  BY <1>1, <1>4, <1>6, <1>14

\* Dropping the guard retires the first ticket that is out; everybody behind
\* moves up by one.
LEMMA DropGuardDeals ==
  ASSUME TypeOK, TicketsAreDealt, NEW t \in Threads, DropGuard(t)
  PROVE  /\ TicketsAreDealt'
         /\ InLine' = InLine \ {t}
         /\ t \in InLine
         /\ Turn(t) = 0
         /\ \A u \in InLine' : Turn(u)' = Turn(u) - 1
         /\ Holders = {t} /\ Holders' = {}
<1> DEFINE k == Cardinality(InLine)
<1>1. t \in InLine /\ t \in Holders /\ InLine' = InLine \ {t} /\ ticket' = ticket
  BY DEF DropGuard, TypeOK, InLine, Holders
<1>2. k \in Nat /\ k <= TicketMod /\ IsFiniteSet(InLine)
  BY LineIsFinite
<1>3. Cardinality(InLine') = k - 1 /\ k > 0
  BY <1>1, <1>2, FS_RemoveElement, FS_EmptySet
<1>4. ticket[t] = serving /\ Turn(t) = 0
  BY <1>1, TicketAssumption
  DEF TypeOK, Tickets, TicketsAreDealt, Turn, Distance
<1>5. \A u \in InLine' : ticket[u] # serving
  BY <1>1, <1>4 DEF TicketsAreDealt
<1>6. serving' = WrappingInc(serving) /\ next' = next
  BY DEF DropGuard
<1>7. \A u \in InLine' : Turn(u)' = Turn(u) - 1
  <2> SUFFICES ASSUME NEW u \in InLine'
               PROVE  Turn(u)' = Turn(u) - 1
    OBVIOUS
  <2>1. u \in Threads /\ ticket[u] # serving /\ ticket'[u] = ticket[u]
    BY <1>1, <1>5 DEF InLine
  <2>2. ticket[u] \in Tickets /\ serving \in Tickets
    BY <2>1 DEF TypeOK
  <2>3. QED
    BY <2>1, <2>2, <1>6, TicketAssumption DEF Tickets, WrappingInc, Turn, Distance
<1>8. \A u \in InLine : Turn(u) < k /\ Turn(u) \in Int
  BY TicketAssumption DEF TypeOK, Tickets, InLine, Turn, Distance, TicketsAreDealt
<1>9. \A u \in InLine' : Turn(u)' < k - 1
  BY <1>1, <1>2, <1>7, <1>8
<1>10. Holders = {t}
  BY <1>1, <1>4 DEF TicketsAreDealt, Holders, InLine
<1>11. Holders' = {}
  BY <1>10 DEF Holders, DropGuard, TypeOK
<1>12. next' = WrappingAdd(serving', k - 1)
  BY <1>2, <1>3, <1>6, TicketAssumption
  DEF TypeOK, Tickets, TicketsAreDealt, WrappingInc, WrappingAdd
<1>13. TicketsAreDealt'
  BY <1>1, <1>3, <1>9, <1>11, <1>12 DEF TicketsAreDealt, WrappingAdd
<1>14. QED
  BY <1>1, <1>4, <1>7, <1>10, <1>11, <1>13

\* Getting the lock deals no ticket.
LEMMA SeeServingDeals ==
  ASSUME TypeOK, TicketsAreDealt, NEW t \in Threads, SeeServing(t)
  PROVE  /\ TicketsAreDealt'
         /\ InLine' = InLine
         /\ t \in InLine \ Holders
         /\ Holders' = Holders \cup {t}
         /\ \A u \in Threads : Turn(u)' = Turn(u)
         /\ Turn(t) = 0
<1>1. /\ t \in InLine \ Holders
      /\ InLine' = InLine
      /\ Holders' = Holders \cup {t}
      /\ UNCHANGED <<serving, next, ticket>>
  BY DEF SeeServing, TypeOK, InLine, Holders
<1>2. ticket[t] = serving
  BY DEF SeeServing, Served
<1>3. \A u \in Threads : Turn(u)' = Turn(u)
  BY <1>1 DEF Turn
<1>4. Turn(t) = 0
  BY <1>2, TicketAssumption DEF TypeOK, Tickets, Turn, Distance
<1>5. TicketsAreDealt'
  <2>1. \A u \in InLine' : Turn(u)' < Cardinality(InLine)'
    BY <1>1, <1>3 DEF TicketsAreDealt, InLine
  <2>2. \A u, v \in InLine' : ticket'[u] = ticket'[v] => u = v
    BY <1>1 DEF TicketsAreDealt
  <2>3. \A u \in Holders' : ticket'[u] = serving'
    BY <1>1, <1>2 DEF TicketsAreDealt
  <2>4. next' = WrappingAdd(serving, Cardinality(InLine))'
    BY <1>1 DEF TicketsAreDealt, WrappingAdd
  <2>5. QED
    BY <2>1, <2>2, <2>3, <2>4 DEF TicketsAreDealt
<1>6. QED
  BY <1>1, <1>3, <1>4, <1>5

\* The tickets that are out are consecutive, also across the wrap-around of
\* the two AtomicU32 counters.
THEOREM TicketsAlwaysDealt == Spec => []TicketsAreDealt
<1>1. Init => TicketsAreDealt
  <2> SUFFICES ASSUME Init
               PROVE  TicketsAreDealt
    OBVIOUS
  <2>1. InLine = {} /\ Holders = {}
    BY DEF Init, InLine, Holders
  <2>2. Cardinality(InLine) = 0
    BY <2>1, FS_EmptySet
  <2>3. QED
    BY <2>1, <2>2, TicketAssumption DEF Init, TicketsAreDealt, WrappingAdd
<1>2. TypeOK /\ TicketsAreDealt /\ [Next]_vars => TicketsAreDealt'
  <2> SUFFICES ASSUME TypeOK, TicketsAreDealt, [Next]_vars
               PROVE  TicketsAreDealt'
    OBVIOUS
  <2>1. CASE UNCHANGED vars
    BY <2>1 DEF vars, TicketsAreDealt, InLine, Holders, Turn, Distance, WrappingAdd
  <2>2. QED
    BY <2>1, TakeTicketDeals, SeeServingDeals, DropGuardDeals DEF Next
<1>3. QED
  BY <1>1, <1>2, TypeCorrect, PTL DEF Spec

\* Mutual exclusion of the data behind a TicketSpinlock: two holders would
\* hold the ticket being served, which was dealt to one thread only.
THEOREM TicketMutualExclusion == Spec => []MutualExclusion
<1>1. TicketsAreDealt => MutualExclusion
  BY DEF TicketsAreDealt, MutualExclusion, Holders, InLine
<1>2. QED
  BY <1>1, TicketsAlwaysDealt, PTL

-----------------------------------------------------------------------------
\* Each step of the ticket lock is a step of FifoLock or changes nothing there.
LEMMA StepServesInOrder ==
  ASSUME TypeOK, TicketsAreDealt, [Next]_vars
  PROVE  [Fifo!Next]_(Fifo!vars)
<1> USE DEF Fifo!vars
<1>1. \A u \in InLine : Turn(u) \in Int /\ Turn(u) >= 0 /\ Turn(u) < Cardinality(InLine)
  BY TicketAssumption DEF TypeOK, Tickets, InLine, Turn, Distance, TicketsAreDealt
<1>2. ASSUME NEW t \in Threads, TakeTicket(t)
      PROVE  Fifo!Request(t)
  <2>1. /\ InLine' = InLine \cup {t}
        /\ t \notin InLine
        /\ Turn(t)' = Cardinality(InLine)
        /\ \A u \in InLine : Turn(u)' = Turn(u)
    BY <1>2, TakeTicketDeals
  <2>2. Cardinality(InLine) \in Nat
    BY LineIsFinite
  <2>3. Ahead'[t] = InLine
    BY <2>1, <2>2, <1>1 DEF Ahead
  <2>4. ASSUME NEW u \in Threads, u # t
        PROVE  Ahead'[u] = Ahead[u]
    BY <2>1, <2>2, <2>4, <1>1 DEF Ahead
  <2>5. Ahead' = [Ahead EXCEPT ![t] = InLine]
    BY <2>3, <2>4, Zenon DEF Ahead
  <2>6. Holders' = Holders
    BY <1>2 DEF TakeTicket, TypeOK, Holders
  <2>7. QED
    BY <2>1, <2>5, <2>6 DEF Fifo!Request
<1>3. ASSUME NEW t \in Threads, SeeServing(t)
      PROVE  Fifo!Grant(t)
  <2>1. /\ InLine' = InLine
        /\ t \in InLine \ Holders
        /\ Holders' = Holders \cup {t}
        /\ \A u \in Threads : Turn(u)' = Turn(u)
        /\ Turn(t) = 0
    BY <1>3, SeeServingDeals
  <2>2. Ahead[t] = {}
    BY <2>1, <1>1 DEF Ahead
  <2>3. Ahead' = Ahead
    BY <2>1 DEF Ahead, InLine
  <2>4. QED
    BY <2>1, <2>2, <2>3 DEF Fifo!Grant
<1>4. ASSUME NEW t \in Threads, DropGuard(t)
      PROVE  Fifo!Release(t)
  <2>1. /\ InLine' = InLine \ {t}
        /\ t \in InLine
        /\ Turn(t) = 0
        /\ \A u \in InLine' : Turn(u)' = Turn(u) - 1
        /\ Holders = {t} /\ Holders' = {}
    BY <1>4, DropGuardDeals
  <2>2. ASSUME NEW u \in Threads
        PROVE  Ahead'[u] = Ahead[u] \ {t}
    <3>1. CASE u \in InLine'
      BY <3>1, <2>1, <1>1 DEF Ahead
    <3>2. CASE u = t
      BY <3>2, <2>1, <1>1 DEF Ahead
    <3>3. CASE u \notin InLine
      BY <3>3, <2>1 DEF Ahead
    <3>4. QED
      BY <3>1, <3>2, <3>3, <2>1
  <2>3. Ahead' = [u \in Threads |-> Ahead[u] \ {t}]
    BY <2>2, Zenon DEF Ahead
  <2>4. QED
    BY <2>1, <2>3 DEF Fifo!Release
<1>5. CASE UNCHANGED vars
  <2>1. InLine' = InLine /\ Holders' = Holders /\ Ahead' = Ahead
    BY <1>5 DEF vars, InLine, Holders, Ahead, Turn
  <2>2. QED
    BY <2>1
<1>6. QED
  BY <1>2, <1>3, <1>4, <1>5 DEF Next, Fifo!Next

\* TicketSpinlock implements the lock that serves in order of arrival.
THEOREM TicketImplementsFifo == Spec => ServesInOrder
<1>1. Init => Fifo!Init
  BY DEF Init, Fifo!Init, InLine, Holders, Ahead
<1>2. TypeOK /\ TicketsAreDealt /\ [Next]_vars => [Fifo!Next]_(Fifo!vars)
  BY StepServesInOrder
<1>3. QED
  BY <1>1, <1>2, TypeCorrect, TicketsAlwaysDealt, PTL DEF Spec, ServesInOrder, Fifo!Spec
-----------------------------------------------------------------------------
(***************************************************************************)
(* McsLock.  The queue is spelled out twice, by the pointers and by the    *)
(* history variable ahead; neither invariant is inductive without the      *)
(* other.                                                                  *)
(***************************************************************************)
McsPcs == {"idle", "test", "spin", "held", "clear", "await", "pass"}

McsTypeOK ==
  /\ tail \in McsThreads \cup {NoNode}
  /\ mcsNext \in [McsThreads -> McsThreads \cup {NoNode}]
  /\ mcsLocked \in [McsThreads -> BOOLEAN]
  /\ mcsPc \in [McsThreads -> McsPcs]
  /\ prev \in [McsThreads -> McsThreads \cup {NoNode}]
  /\ ahead \in [McsThreads -> SUBSET McsThreads]

\* The line behind the queue: it is ordered, and whoever holds the lock is first.
McsLine ==
  /\ \A t \in McsThreads : ahead[t] \subseteq Mcs!InLine \ {t}
  /\ \A t, u \in Mcs!InLine : t # u => (t \in ahead[u] <=> u \notin ahead[t])
  /\ \A t \in Mcs!Holders : ahead[t] = {}

\* The tail and the predecessors spell out the line.
McsTail ==
  /\ tail = NoNode <=> Mcs!InLine = {}
  /\ tail # NoNode => tail \in Mcs!InLine /\ ahead[tail] = Mcs!InLine \ {tail}
  /\ \A t \in Mcs!InLine : Mcs!Waiting(t) =>
       /\ prev[t] \in Mcs!InLine
       /\ ahead[t] = ahead[prev[t]] \cup {prev[t]}

\* Who is not first waits, with its flag set; only a waiting thread is linked.
McsFlags ==
  /\ \A t \in McsThreads : mcsPc[t] = "test" =>
       mcsLocked[t] /\ (prev[t] = NoNode <=> ahead[t] = {})
  /\ \A t \in McsThreads : mcsPc[t] = "spin" => (mcsLocked[t] <=> ahead[t] # {})
  /\ \A t \in Mcs!InLine : mcsNext[t] # NoNode =>
       /\ mcsPc[mcsNext[t]] = "spin"
       /\ prev[mcsNext[t]] = t
       /\ ahead[mcsNext[t]] # {}
  /\ \A t \in McsThreads : mcsPc[t] = "pass" => mcsNext[t] # NoNode

McsIInv == McsTypeOK /\ McsLine /\ McsTail /\ McsFlags

\* A new lock has nobody in line.
LEMMA McsInitHolds == Mcs!Init => McsIInv
  BY NoNodeAssumption
  DEF Mcs!Init, McsIInv, McsTypeOK, McsPcs, McsLine, McsTail, McsFlags,
      Mcs!InLine, Mcs!Holders, Mcs!Waiting

\* A thread has at most one other waiting right behind it.
LEMMA McsOneSuccessor ==
  ASSUME McsIInv,
         NEW t \in Mcs!InLine, NEW u \in Mcs!InLine,
         Mcs!Waiting(t), Mcs!Waiting(u), prev[t] = prev[u]
  PROVE  t = u
  BY DEF McsIInv, McsTypeOK, McsLine, McsTail, Mcs!InLine

\* lock(): the thread joins the line behind everybody in it.
LEMMA McsSwapTailJoins ==
  ASSUME McsIInv, NEW t \in McsThreads, Mcs!SwapTail(t)
  PROVE  /\ McsIInv'
         /\ t \notin Mcs!InLine
         /\ Mcs!InLine' = Mcs!InLine \cup {t}
         /\ Mcs!Holders' = Mcs!Holders
<1> USE NoNodeAssumption DEF McsIInv, McsTypeOK, McsPcs
<1>1. /\ mcsPc[t] = "idle"
      /\ mcsPc' = [mcsPc EXCEPT ![t] = "test"]
      /\ mcsNext' = [mcsNext EXCEPT ![t] = NoNode]
      /\ mcsLocked' = [mcsLocked EXCEPT ![t] = TRUE]
      /\ prev' = [prev EXCEPT ![t] = tail]
      /\ tail' = t
      /\ ahead' = [ahead EXCEPT ![t] = Mcs!InLine]
  BY DEF Mcs!SwapTail, Mcs!Goto
<1>2. /\ t \notin Mcs!InLine
      /\ Mcs!InLine' = Mcs!InLine \cup {t}
      /\ Mcs!Holders' = Mcs!Holders
      /\ Mcs!Holders \subseteq Mcs!InLine
  BY <1>1 DEF Mcs!InLine, Mcs!Holders
<1>3. McsTypeOK'
  BY <1>1 DEF Mcs!InLine
<1>4. McsLine'
  BY <1>1, <1>2 DEF McsLine, Mcs!InLine, Mcs!Holders
<1>5. McsTail'
  BY <1>1, <1>2 DEF McsLine, McsTail, Mcs!InLine, Mcs!Waiting
<1>6. McsFlags'
  BY <1>1, <1>2 DEF McsLine, McsTail, McsFlags, Mcs!InLine, Mcs!Waiting
<1>7. QED
  BY <1>2, <1>3, <1>4, <1>5, <1>6

\* lock(): the thread found the queue empty, or its flag cleared: it is first.
LEMMA McsTakeFreeGrants ==
  ASSUME McsIInv, NEW t \in McsThreads, Mcs!TakeFree(t) \/ Mcs!SeeUnlocked(t)
  PROVE  /\ McsIInv'
         /\ t \in Mcs!InLine \ Mcs!Holders
         /\ ahead[t] = {}
         /\ Mcs!InLine' = Mcs!InLine
         /\ Mcs!Holders' = Mcs!Holders \cup {t}
         /\ ahead' = ahead
<1> USE NoNodeAssumption DEF McsIInv, McsTypeOK, McsPcs
<1>1. /\ mcsPc[t] \in {"test", "spin"} /\ ahead[t] = {}
      /\ mcsPc' = [mcsPc EXCEPT ![t] = "held"]
      /\ UNCHANGED <<tail, mcsNext, mcsLocked, prev, ahead>>
  BY DEF Mcs!TakeFree, Mcs!SeeUnlocked, Mcs!Goto, McsFlags
<1>2. /\ t \in Mcs!InLine \ Mcs!Holders
      /\ Mcs!InLine' = Mcs!InLine
      /\ Mcs!Holders' = Mcs!Holders \cup {t}
  BY <1>1 DEF Mcs!InLine, Mcs!Holders
<1>3. McsTypeOK' /\ McsLine'
  BY <1>1, <1>2 DEF McsLine
<1>4. McsTail' /\ McsFlags'
  BY <1>1, <1>2 DEF McsTail, McsFlags, Mcs!Waiting, Mcs!InLine
<1>5. QED
  BY <1>1, <1>2, <1>3, <1>4

\* The steps that move a thread on without changing who is in line or holds.
LEMMA McsLinkStays ==
  ASSUME McsIInv, NEW t \in McsThreads, Mcs!Link(t)
  PROVE  McsIInv' /\ UNCHANGED <<Mcs!InLine, ahead, Mcs!Holders>>
<1> USE NoNodeAssumption DEF McsIInv, McsTypeOK, McsPcs
<1>1. /\ mcsPc[t] = "test" /\ prev[t] # NoNode
      /\ mcsPc' = [mcsPc EXCEPT ![t] = "spin"]
      /\ mcsNext' = [mcsNext EXCEPT ![prev[t]] = t]
      /\ UNCHANGED <<tail, mcsLocked, prev, ahead>>
  BY DEF Mcs!Link, Mcs!Goto
<1>2. mcsLocked[t] /\ ahead[t] # {} /\ prev[t] \in McsThreads
  BY <1>1 DEF McsFlags
<1>3. Mcs!InLine' = Mcs!InLine /\ Mcs!Holders' = Mcs!Holders /\ ahead' = ahead
  BY <1>1 DEF Mcs!InLine, Mcs!Holders
<1>4. McsTypeOK' /\ McsLine' /\ McsTail'
  BY <1>1, <1>2, <1>3 DEF McsLine, McsTail, Mcs!Waiting, Mcs!InLine
<1>5. McsFlags'
  BY <1>1, <1>2, <1>3 DEF McsFlags, Mcs!InLine
<1>6. QED
  BY <1>3, <1>4, <1>5

\* The steps of unlock() that do not hand the lock on yet.
LEMMA McsUnlockStays ==
  ASSUME McsIInv, NEW t \in McsThreads,
         \/ Mcs!LoadNext(t)
         \/ Mcs!ClearTail(t) /\ tail # t
         \/ Mcs!AwaitSuccessor(t)
  PROVE  McsIInv' /\ UNCHANGED <<Mcs!InLine, ahead, Mcs!Holders>>
<1> USE NoNodeAssumption DEF McsIInv, McsTypeOK, McsPcs
<1>1. /\ mcsPc[t] \in {"held", "clear", "await"}
      /\ UNCHANGED <<tail, mcsNext, mcsLocked, prev, ahead>>
      /\ \/ mcsPc' = [mcsPc EXCEPT ![t] = "clear"]
         \/ mcsPc' = [mcsPc EXCEPT ![t] = "await"]
         \/ mcsPc' = [mcsPc EXCEPT ![t] = "pass"] /\ mcsNext[t] # NoNode
  BY DEF Mcs!LoadNext, Mcs!ClearTail, Mcs!AwaitSuccessor, Mcs!Goto
<1>2. Mcs!InLine' = Mcs!InLine /\ Mcs!Holders' = Mcs!Holders /\ ahead' = ahead
  BY <1>1 DEF Mcs!InLine, Mcs!Holders
<1>3. McsTypeOK' /\ McsLine' /\ McsTail'
  BY <1>1, <1>2 DEF McsLine, McsTail, Mcs!Waiting, Mcs!InLine
<1>4. McsFlags'
  BY <1>1, <1>2 DEF McsFlags, Mcs!InLine
<1>5. QED
  BY <1>2, <1>3, <1>4

\* unlock(): the exchange clears the tail of a line that held nobody else.
LEMMA McsClearTailLeaves ==
  ASSUME McsIInv, NEW t \in McsThreads, Mcs!ClearTail(t), tail = t
  PROVE  /\ McsIInv'
         /\ Mcs!InLine = {t} /\ Mcs!Holders = {t}
         /\ Mcs!InLine' = {} /\ Mcs!Holders' = {}
         /\ ahead' = [u \in McsThreads |-> ahead[u] \ {t}]
<1> USE NoNodeAssumption DEF McsIInv, McsTypeOK, McsPcs
<1>1. /\ mcsPc[t] = "clear"
      /\ mcsPc' = [mcsPc EXCEPT ![t] = "idle"]
      /\ tail' = NoNode
      /\ ahead' = [u \in McsThreads |-> ahead[u] \ {t}]
      /\ UNCHANGED <<mcsNext, mcsLocked, prev>>
  BY DEF Mcs!ClearTail, Mcs!Goto, Mcs!Leave
<1>2. t \in Mcs!Holders /\ t \in Mcs!InLine /\ Mcs!Holders \subseteq Mcs!InLine
  BY <1>1 DEF Mcs!Holders, Mcs!InLine
<1>3. Mcs!InLine = {t} /\ Mcs!Holders = {t}
  BY <1>2 DEF McsLine, McsTail
<1>4. Mcs!InLine' = {} /\ Mcs!Holders' = {}
  BY <1>1, <1>3 DEF Mcs!Holders, Mcs!InLine
<1>5. McsTypeOK' /\ McsLine' /\ McsTail'
  BY <1>1, <1>3, <1>4 DEF McsLine, McsTail
<1>6. McsFlags'
  BY <1>1, <1>4 DEF McsFlags, Mcs!InLine
<1>7. QED
  BY <1>1, <1>3, <1>4, <1>5, <1>6

\* unlock(): the flag that is cleared is that of the thread right behind.
LEMMA McsPassOnLeaves ==
  ASSUME McsIInv, NEW t \in McsThreads, Mcs!PassOn(t)
  PROVE  /\ McsIInv'
         /\ t \in Mcs!Holders
         /\ Mcs!InLine' = Mcs!InLine \ {t} /\ Mcs!Holders' = Mcs!Holders \ {t}
         /\ ahead' = [u \in McsThreads |-> ahead[u] \ {t}]
<1> DEFINE s == mcsNext[t]
<1> USE NoNodeAssumption DEF McsIInv, McsTypeOK, McsPcs
<1>1. /\ mcsPc[t] = "pass"
      /\ mcsPc' = [mcsPc EXCEPT ![t] = "idle"]
      /\ mcsLocked' = [mcsLocked EXCEPT ![s] = FALSE]
      /\ ahead' = [u \in McsThreads |-> ahead[u] \ {t}]
      /\ UNCHANGED <<tail, mcsNext, prev>>
  BY DEF Mcs!PassOn, Mcs!Goto, Mcs!Leave
<1>2. /\ t \in Mcs!Holders /\ t \in Mcs!InLine
      /\ Mcs!InLine' = Mcs!InLine \ {t} /\ Mcs!Holders' = Mcs!Holders \ {t}
  BY <1>1 DEF Mcs!Holders, Mcs!InLine
<1>3. s \in McsThreads /\ mcsPc[s] = "spin" /\ prev[s] = t /\ ahead[s] = {t} /\ s # t
  BY <1>1, <1>2 DEF McsLine, McsTail, McsFlags, Mcs!Waiting, Mcs!InLine
<1>4. McsTypeOK'
  BY <1>1, <1>3
<1>5. McsLine'
  <2>1. \A u \in McsThreads : ahead'[u] = ahead[u] \ {t}
    BY <1>1
  <2>2. Mcs!InLine \subseteq McsThreads /\ Mcs!Holders \subseteq McsThreads
    BY DEF Mcs!InLine, Mcs!Holders
  <2>3. QED
    BY <2>1, <2>2, <1>2 DEF McsLine
<1>6. \A u \in Mcs!InLine : Mcs!Waiting(u) /\ prev[u] = t => u = s
  BY <1>3, McsOneSuccessor DEF Mcs!InLine, Mcs!Waiting
<1>7. McsTail'
  BY <1>1, <1>2, <1>3, <1>6 DEF McsLine, McsTail, Mcs!Waiting, Mcs!InLine
<1>8. McsFlags'
  BY <1>1, <1>2, <1>3, <1>6 DEF McsLine, McsTail, McsFlags, Mcs!Waiting, Mcs!InLine
<1>9. QED
  BY <1>1, <1>2, <1>4, <1>5, <1>7, <1>8

\* One step per operation.
LEMMA McsStepKeeps == McsIInv /\ [Mcs!Next]_(Mcs!vars) => McsIInv'
<1> SUFFICES ASSUME McsIInv, [Mcs!Next]_(Mcs!vars) PROVE McsIInv'
  OBVIOUS
<1>1. CASE UNCHANGED Mcs!vars
  BY <1>1
  DEF Mcs!vars, McsIInv, McsTypeOK, McsLine, McsTail, McsFlags,
      Mcs!InLine, Mcs!Holders, Mcs!Waiting
<1>2. ASSUME NEW t \in McsThreads, Mcs!SwapTail(t) \/ Mcs!Lock(t) \/ Mcs!Unlock(t)
      PROVE  McsIInv'
  BY <1>2, McsSwapTailJoins, McsTakeFreeGrants, McsLinkStays, McsUnlockStays,
     McsClearTailLeaves, McsPassOnLeaves
  DEF Mcs!Lock, Mcs!Unlock
<1>3. QED
  BY <1>1, <1>2 DEF Mcs!Next

\* QueuedSpinlock::lock and unlock: however the link of a new node races with an
\* unlock(), the pointers spell out the line and the lock goes to the next in it.
THEOREM McsAlwaysLinked == Mcs!Spec => []McsQueueIsLinked
<1>1. McsIInv => McsQueueIsLinked
  BY NoNodeAssumption
  DEF McsIInv, McsTypeOK, McsPcs, McsLine, McsTail, McsFlags, McsQueueIsLinked,
      Mcs!QueueIsLinked, Mcs!InLine, Mcs!Holders, Mcs!Waiting
<1>2. QED
  BY <1>1, McsInitHolds, McsStepKeeps, PTL DEF Mcs!Spec

\* QueuedSpinlock implements the lock that serves in order of arrival.
THEOREM McsImplementsFifo == Mcs!Spec => McsServesInOrder
<1>1. Mcs!Init => Mcs!Fifo!Init
  BY DEF Mcs!Init, Mcs!Fifo!Init, Mcs!InLine, Mcs!Holders
<1>2. McsIInv /\ [Mcs!Next]_(Mcs!vars) => [Mcs!Fifo!Next]_(Mcs!Fifo!vars)
  <2> SUFFICES ASSUME McsIInv, [Mcs!Next]_(Mcs!vars)
               PROVE  [Mcs!Fifo!Next]_(Mcs!Fifo!vars)
    OBVIOUS
  <2>1. ASSUME NEW t \in McsThreads, Mcs!SwapTail(t)
        PROVE  Mcs!Fifo!Request(t)
    BY <2>1, McsSwapTailJoins DEF Mcs!SwapTail, Mcs!Fifo!Request
  <2>2. ASSUME NEW t \in McsThreads, Mcs!TakeFree(t) \/ Mcs!SeeUnlocked(t)
        PROVE  Mcs!Fifo!Grant(t)
    BY <2>2, McsTakeFreeGrants DEF Mcs!Fifo!Grant
  <2>3. ASSUME NEW t \in McsThreads, (Mcs!ClearTail(t) /\ tail = t) \/ Mcs!PassOn(t)
        PROVE  Mcs!Fifo!Release(t)
    BY <2>3, McsClearTailLeaves, McsPassOnLeaves DEF Mcs!Fifo!Release
  <2>4. ASSUME NEW t \in McsThreads,
               \/ Mcs!Link(t) \/ Mcs!LoadNext(t) \/ Mcs!AwaitSuccessor(t)
               \/ Mcs!ClearTail(t) /\ tail # t
        PROVE  UNCHANGED Mcs!Fifo!vars
    BY <2>4, McsLinkStays, McsUnlockStays DEF Mcs!Fifo!vars
  <2>5. CASE UNCHANGED Mcs!vars
    BY <2>5 DEF Mcs!vars, Mcs!Fifo!vars, Mcs!InLine, Mcs!Holders
  <2>6. QED
    BY <2>1, <2>2, <2>3, <2>4, <2>5
    DEF Mcs!Next, Mcs!Lock, Mcs!Unlock, Mcs!Fifo!Next
<1>3. QED
  BY <1>1, <1>2, McsInitHolds, McsStepKeeps, PTL
  DEF Mcs!Spec, McsServesInOrder, Mcs!ServesInOrder, Mcs!Fifo!Spec

\* QueuedSpinlock has one holder at a time: who holds is first in the line.
THEOREM McsMutualExclusion == Mcs!Spec => []Mcs!Fifo!MutualExclusion
<1>1. McsIInv => Mcs!Fifo!MutualExclusion
  BY DEF McsIInv, McsLine, Mcs!Fifo!MutualExclusion, Mcs!InLine, Mcs!Holders
<1>2. QED
  BY <1>1, McsInitHolds, McsStepKeeps, PTL DEF Mcs!Spec

-----------------------------------------------------------------------------
\* IrqSpinlock.
IrqGuard == [lock : Locks, irq_enabled : BOOLEAN]

IrqTypeOK ==
  /\ irq \in [CPUs -> BOOLEAN]
  /\ active \in [CPUs -> BOOLEAN]
  /\ irqPc \in [Irq!Contexts -> {"run", "lock", "try_lock", "drop"}]
  /\ saved \in [Irq!Contexts -> BOOLEAN]
  /\ guards \in [Irq!Contexts -> Seq(IrqGuard)]
  /\ want \in [Irq!Contexts -> Locks \cup {CHOOSE l \in Locks : TRUE}]
  /\ \A x \in Irq!Contexts : irqPc[x] \in {"lock", "try_lock"} => want[x] \in Locks

\* The context is outside the lock's code and has no guard.
IrqOutside(x) == irqPc[x] = "run" /\ guards[x] = <<>>

\* A sequence without its last element.
LEMMA FrontOfSeq ==
  ASSUME NEW S, NEW s \in Seq(S), s # <<>>
  PROVE  /\ Len(s) \in Nat \ {0}
         /\ SubSeq(s, 1, Len(s) - 1) \in Seq(S)
         /\ Len(SubSeq(s, 1, Len(s) - 1)) = Len(s) - 1
         /\ \A i \in 1 .. Len(s) - 1 : SubSeq(s, 1, Len(s) - 1)[i] = s[i]
<1>1. Len(s) \in Nat \ {0} /\ \A i \in 1 .. Len(s) : s[i] \in S
  BY EmptySeq
<1>2. PICK m \in Int : m = Len(s) - 1
  BY <1>1
<1>3. /\ m \in Nat /\ 1 \in Int
      /\ \A i \in 1 .. m : s[i] \in S
  BY <1>1, <1>2
<1>4. /\ SubSeq(s, 1, m) \in Seq(S)
      /\ Len(SubSeq(s, 1, m)) = IF 1 <= m THEN m - 1 + 1 ELSE 0
  BY <1>3, SubSeqProperties
<1>5. Len(SubSeq(s, 1, m)) = m
  BY <1>3, <1>4
<1>6. \A i \in 1 .. m : SubSeq(s, 1, m)[i] = s[i]
  BY <1>3
<1>7. QED
  BY <1>1, <1>2, <1>4, <1>5, <1>6

(***************************************************************************)
(* The flag of a CPU is on exactly while its task is outside.  Hence only  *)
(* a task that is outside is interrupted, and the flag that a call found   *)
(* and its guard remembers is on for the task's first guard only.          *)
(***************************************************************************)
IrqBalanced(x) ==
  /\ Irq!Running(x) => (irq[Irq!Cpu(x)] <=> IrqOutside(x) /\ x[2] = "task")
  /\ ~Irq!Running(x) => IrqOutside(x)
  /\ irqPc[x] \in {"lock", "try_lock"} => (saved[x] <=> guards[x] = <<>> /\ x[2] = "task")
  /\ \A i \in 1 .. Len(guards[x]) :
       guards[x][i].irq_enabled <=> (i = 1 /\ x[2] = "task")
  /\ irqPc[x] = "drop" => guards[x] # <<>>

IrqIInv == IrqTypeOK /\ \A x \in Irq!Contexts : IrqBalanced(x)

\* A context is its CPU and its kind.
LEMMA IrqContexts ==
  /\ \A c \in CPUs : <<c, "task">> \in Irq!Contexts /\ <<c, "handler">> \in Irq!Contexts
  /\ \A x \in Irq!Contexts : Irq!Cpu(x) \in CPUs /\ x[2] \in {"task", "handler"}
  /\ \A x, y \in Irq!Contexts : Irq!Cpu(x) = Irq!Cpu(y) /\ x[2] = y[2] => x = y
  BY DEF Irq!Contexts, Irq!Cpu

\* Every CPU starts in its task, with interrupts on and no guard.
LEMMA IrqInitHolds == Irq!Init => IrqIInv
<1> SUFFICES ASSUME Irq!Init PROVE IrqIInv
  OBVIOUS
<1>1. IrqTypeOK
  BY DEF Irq!Init, IrqTypeOK
<1>2. ASSUME NEW x \in Irq!Contexts  PROVE IrqBalanced(x)
  <2>1. /\ irq[Irq!Cpu(x)] /\ ~active[Irq!Cpu(x)]
        /\ irqPc[x] = "run" /\ guards[x] = <<>> /\ Len(guards[x]) = 0
    BY IrqContexts DEF Irq!Init
  <2>2. Irq!Running(x) <=> x[2] = "task"
    BY <2>1, IrqContexts DEF Irq!Running
  <2>3. QED
    BY <2>1, <2>2 DEF IrqBalanced, IrqOutside
<1>3. QED
  BY <1>1, <1>2 DEF IrqIInv

\* A step of the running context x leaves the other contexts balanced.
LEMMA IrqElsewhere ==
  ASSUME IrqIInv, NEW x \in Irq!Contexts, Irq!Running(x), active' = active,
         \A c \in CPUs \ {Irq!Cpu(x)} : irq'[c] = irq[c],
         \A y \in Irq!Contexts \ {x} :
           irqPc'[y] = irqPc[y] /\ saved'[y] = saved[y] /\ guards'[y] = guards[y]
  PROVE  \A y \in Irq!Contexts \ {x} : IrqBalanced(y)'
<1> SUFFICES ASSUME NEW y \in Irq!Contexts \ {x} PROVE IrqBalanced(y)'
  OBVIOUS
<1>1. IrqBalanced(y) /\ Irq!Cpu(y) \in CPUs /\ (Irq!Running(y)' <=> Irq!Running(y))
  BY IrqContexts DEF IrqIInv, Irq!Running
<1>2. CASE Irq!Cpu(y) # Irq!Cpu(x)
  BY <1>1, <1>2 DEF IrqBalanced, IrqOutside
<1>3. CASE Irq!Cpu(y) = Irq!Cpu(x)
  <2>1. ~Irq!Running(y)
    BY <1>3, IrqContexts DEF Irq!Running
  <2>2. QED
    BY <1>1, <2>1 DEF IrqBalanced, IrqOutside
<1>4. QED
  BY <1>2, <1>3

\* One step per operation.
LEMMA IrqStepKeeps == IrqIInv /\ [Irq!Next]_(Irq!vars) => IrqIInv'
<1> SUFFICES ASSUME IrqIInv, [Irq!Next]_(Irq!vars) PROVE IrqIInv'
  OBVIOUS
<1> USE DEF IrqIInv, IrqTypeOK
<1>1. ASSUME NEW c \in CPUs, Irq!Interrupt(c)  PROVE IrqIInv'
  <2> USE <1>1, IrqContexts DEF Irq!Interrupt
  <2>1. IrqTypeOK'
    OBVIOUS
  <2>2. ASSUME NEW x \in Irq!Contexts, Irq!Cpu(x) # c  PROVE IrqBalanced(x)'
    BY <2>2 DEF IrqBalanced, IrqOutside, Irq!Running
  <2>3. ASSUME NEW x \in Irq!Contexts, Irq!Cpu(x) = c  PROVE IrqBalanced(x)'
    <3>1. IrqOutside(x) /\ IrqBalanced(x)
      BY <2>3 DEF IrqBalanced, Irq!Running
    <3>2. active'[c] /\ ~irq'[c] /\ UNCHANGED <<irqPc, saved, guards>>
      OBVIOUS
    <3>3. Irq!Running(x)' <=> x[2] = "handler"
      BY <2>3, <3>2 DEF Irq!Running
    <3>4. QED
      BY <2>3, <3>1, <3>2, <3>3 DEF IrqBalanced, IrqOutside
  <2>4. QED
    BY <2>1, <2>2, <2>3
<1>2. ASSUME NEW c \in CPUs, Irq!ReturnFromInterrupt(c)  PROVE IrqIInv'
  <2> USE <1>2, IrqContexts DEF Irq!ReturnFromInterrupt
  <2>1. IrqTypeOK'
    OBVIOUS
  <2>2. ASSUME NEW x \in Irq!Contexts, Irq!Cpu(x) # c  PROVE IrqBalanced(x)'
    BY <2>2 DEF IrqBalanced, IrqOutside, Irq!Running
  <2>3. ASSUME NEW x \in Irq!Contexts, Irq!Cpu(x) = c  PROVE IrqBalanced(x)'
    <3>1. IrqOutside(x) /\ IrqBalanced(x)
      <4>1. CASE x[2] = "handler"
        <5>1. x = <<c, "handler">>
          BY <2>3, <4>1 DEF Irq!Cpu, Irq!Contexts
        <5>2. QED
          BY <5>1 DEF IrqOutside
      <4>2. CASE x[2] = "task"
        BY <2>3, <4>2 DEF IrqBalanced, Irq!Running
      <4>3. QED
        BY <4>1, <4>2
    <3>2. ~active'[c] /\ irq'[c] /\ UNCHANGED <<irqPc, saved, guards>>
      OBVIOUS
    <3>3. Irq!Running(x)' <=> x[2] = "task"
      BY <2>3, <3>2 DEF Irq!Running
    <3>4. QED
      BY <2>3, <3>1, <3>2, <3>3 DEF IrqBalanced, IrqOutside
  <2>4. QED
    BY <2>1, <2>2, <2>3
<1>3. ASSUME NEW x \in Irq!Contexts, NEW l \in Locks, NEW call \in {"lock", "try_lock"},
             Irq!Begin(x, l, call)
      PROVE  IrqIInv'
  <2> USE IrqContexts, <1>3 DEF Irq!Begin, Irq!Goto, Irq!disable_interrupts
  <2>1. IrqTypeOK'
    OBVIOUS
  <2>2. \A y \in Irq!Contexts \ {x} : IrqBalanced(y)'
    BY IrqElsewhere
  <2>3. IrqBalanced(x)'
    BY DEF IrqBalanced, IrqOutside, Irq!Running
  <2>4. QED
    BY <2>1, <2>2, <2>3
<1>4. ASSUME NEW x \in Irq!Contexts, Irq!Acquire(x)  PROVE IrqIInv'
  <2> DEFINE g == [lock |-> want[x], irq_enabled |-> saved[x]]
  <2>1. /\ Irq!Running(x)
        /\ irqPc[x] \in {"lock", "try_lock"} /\ irqPc' = [irqPc EXCEPT ![x] = "run"]
        /\ guards' = [guards EXCEPT ![x] = Append(guards[x], g)]
        /\ UNCHANGED <<irq, active, want, saved>>
    BY <1>4 DEF Irq!Acquire, Irq!Goto
  <2>2. /\ g \in IrqGuard /\ guards[x] \in Seq(IrqGuard)
        /\ guards'[x] = Append(guards[x], g) /\ guards'[x] \in Seq(IrqGuard)
    BY <2>1, AppendProperties DEF IrqGuard
  <2>3. IrqTypeOK'
    BY <2>1, <2>2
  <2>4. \A y \in Irq!Contexts \ {x} : IrqBalanced(y)'
    BY <2>1, IrqElsewhere
  <2>5. IrqBalanced(x)'
    <3>1. /\ Len(guards'[x]) = Len(guards[x]) + 1 /\ Len(guards[x]) \in Nat
          /\ \A i \in 1 .. Len(guards[x]) : guards'[x][i] = guards[x][i]
          /\ guards'[x][Len(guards[x]) + 1] = g
          /\ guards[x] = <<>> <=> Len(guards[x]) = 0
          /\ guards'[x] # <<>>
      BY <2>2, AppendProperties, EmptySeq
    <3>2. \A i \in 1 .. Len(guards'[x]) :
            guards'[x][i].irq_enabled <=> (i = 1 /\ x[2] = "task")
      BY <2>1, <3>1 DEF IrqBalanced
    <3>3. ~irq[Irq!Cpu(x)] /\ Irq!Running(x)'
      BY <2>1 DEF IrqBalanced, IrqOutside, Irq!Running
    <3>4. ~IrqOutside(x)'
      BY <2>1, <3>1 DEF IrqOutside
    <3>5. QED
      BY <2>1, <3>2, <3>3, <3>4 DEF IrqBalanced
  <2>6. QED
    BY <2>3, <2>4, <2>5
<1>5. ASSUME NEW x \in Irq!Contexts, Irq!TryFails(x)  PROVE IrqIInv'
  <2> USE IrqContexts, <1>5 DEF Irq!TryFails, Irq!Goto, Irq!restore_interrupts
  <2>1. IrqTypeOK'
    OBVIOUS
  <2>2. \A y \in Irq!Contexts \ {x} : IrqBalanced(y)'
    BY IrqElsewhere
  <2>3. IrqBalanced(x)'
    BY DEF IrqBalanced, IrqOutside, Irq!Running
  <2>4. QED
    BY <2>1, <2>2, <2>3
<1>6. ASSUME NEW x \in Irq!Contexts, Irq!DropUnlock(x)  PROVE IrqIInv'
  <2> USE IrqContexts, <1>6 DEF Irq!DropUnlock, Irq!Goto
  <2>1. IrqTypeOK'
    OBVIOUS
  <2>2. \A y \in Irq!Contexts \ {x} : IrqBalanced(y)'
    BY IrqElsewhere
  <2>3. IrqBalanced(x)'
    BY DEF IrqBalanced, IrqOutside, Irq!Running
  <2>4. QED
    BY <2>1, <2>2, <2>3
<1>7. ASSUME NEW x \in Irq!Contexts, Irq!DropRestore(x)  PROVE IrqIInv'
  <2> DEFINE n == Len(guards[x])
  <2>1. /\ Irq!Running(x)
        /\ irqPc[x] = "drop" /\ irqPc' = [irqPc EXCEPT ![x] = "run"]
        /\ guards' = [guards EXCEPT ![x] = SubSeq(guards[x], 1, n - 1)]
        /\ irq' = [irq EXCEPT ![Irq!Cpu(x)] = guards[x][n].irq_enabled \/ irq[Irq!Cpu(x)]]
        /\ UNCHANGED <<active, want, saved>>
    BY <1>7 DEF Irq!DropRestore, Irq!Goto, Irq!restore_interrupts, Irq!Last, Irq!Front
  <2>2. /\ n \in Nat \ {0} /\ guards[x][n] \in IrqGuard
        /\ SubSeq(guards[x], 1, n - 1) \in Seq(IrqGuard)
        /\ Len(SubSeq(guards[x], 1, n - 1)) = n - 1
        /\ \A i \in 1 .. n - 1 : SubSeq(guards[x], 1, n - 1)[i] = guards[x][i]
    <3>1. guards[x] \in Seq(IrqGuard) /\ guards[x] # <<>>
      BY <2>1 DEF IrqBalanced
    <3>2. QED
      BY <3>1, FrontOfSeq
  <2>3. IrqTypeOK'
    BY <2>1, <2>2, IrqContexts
  <2>4. \A y \in Irq!Contexts \ {x} : IrqBalanced(y)'
    BY <2>1, IrqElsewhere
  <2>5. IrqBalanced(x)'
    <3>1. guards[x][n].irq_enabled <=> n = 1 /\ x[2] = "task"
      BY <2>2 DEF IrqBalanced
    <3>2. ~irq[Irq!Cpu(x)] /\ Irq!Running(x)'
      BY <2>1 DEF IrqBalanced, IrqOutside, Irq!Running
    <3>3. irq'[Irq!Cpu(x)] <=> n = 1 /\ x[2] = "task"
      BY <2>1, <3>1, <3>2, IrqContexts
    <3>4. guards'[x] = <<>> <=> n = 1
      <4>1. guards'[x] \in Seq(IrqGuard) /\ Len(guards'[x]) = n - 1
        BY <2>1, <2>2
      <4>2. guards'[x] # <<>> => Len(guards'[x]) # 0
        BY <4>1, EmptySeq
      <4>3. QED
        BY <4>1, <4>2, <2>2
    <3>5. \A i \in 1 .. Len(guards'[x]) :
            guards'[x][i].irq_enabled <=> (i = 1 /\ x[2] = "task")
      BY <2>1, <2>2 DEF IrqBalanced
    <3>6. QED
      BY <2>1, <3>2, <3>3, <3>4, <3>5 DEF IrqBalanced, IrqOutside
  <2>6. QED
    BY <2>3, <2>4, <2>5
<1>8. CASE UNCHANGED Irq!vars
  BY <1>8 DEF Irq!vars, IrqBalanced, IrqOutside, Irq!Running
<1>9. QED
  BY <1>1, <1>2, <1>3, <1>4, <1>5, <1>6, <1>7, <1>8 DEF Irq!Next

\* IrqSpinlock: a handler interrupts only a task that owns no lock, so it never
\* spins on one of its task's.
THEOREM IrqNeverSelfDeadlocks == Irq!Spec => []IrqNoSelfDeadlock
<1>1. IrqIInv => IrqNoSelfDeadlock
  <2>1. ASSUME IrqIInv, NEW c \in CPUs, active[c]
        PROVE  Irq!Held(<<c, "task">>) = {}
    <3>1. ~Irq!Running(<<c, "task">>)
      BY <2>1 DEF Irq!Running, Irq!Cpu
    <3>2. guards[<<c, "task">>] = <<>>
      BY <2>1, <3>1, IrqContexts DEF IrqIInv, IrqBalanced, IrqOutside
    <3>3. QED
      BY <3>2 DEF Irq!Held
  <2>2. QED
    BY <2>1 DEF IrqNoSelfDeadlock, Irq!NoSelfDeadlock, Irq!Owns
<1>2. QED
  BY <1>1, IrqInitHolds, IrqStepKeeps, PTL DEF Irq!Spec

\* disable_interrupts and restore_interrupts balance through nested guards, failed
\* try_locks and interrupts.
THEOREM IrqFlagAlwaysRestored == Irq!Spec => []IrqFlagIsRestored
<1>1. IrqIInv => IrqFlagIsRestored
  BY IrqContexts
  DEF IrqIInv, IrqTypeOK, IrqBalanced, IrqOutside, IrqFlagIsRestored, Irq!FlagIsRestored
<1>2. QED
  BY <1>1, IrqInitHolds, IrqStepKeeps, PTL DEF Irq!Spec

-----------------------------------------------------------------------------
\* The composition that the run checks: each lock of it obeys its own
\* specification, so that the theorems above hold of the run too.
THEOREM MCSpecImplementsAll == MCSpec => Spec /\ Mcs!Spec /\ Irq!Spec
<1>1. MCInit => Init /\ Mcs!Init /\ Irq!Init
  BY DEF MCInit
<1>2. [MCNext]_<<kind, vars, mcsVars, irqVars>> =>
        [Next]_vars /\ [Mcs!Next]_(Mcs!vars) /\ [Irq!Next]_(Irq!vars)
  BY DEF MCNext, vars, mcsVars, irqVars, Mcs!vars, Irq!vars
<1>3. QED
  BY <1>1, <1>2, PTL DEF MCSpec, Spec, Mcs!Spec, Irq!Spec
===============================================================================
