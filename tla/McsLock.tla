-------------------------------- MODULE McsLock -------------------------------
(***************************************************************************)
(* QueuedSpinlock of sync/spinlock.rs, an MCS queue lock.  Each thread     *)
(* brings a node of its own and spins on that node's `locked' flag; `tail' *)
(* names the last node of the queue.  A node is named by its thread and    *)
(* NoNode stands for the null address 0.  Each atomic operation of lock()  *)
(* and unlock() is one step, except that the two stores into a node that   *)
(* no other thread can reach yet are taken together with the swap that     *)
(* publishes it.  Spin iterations that go round again are stuttering.      *)
(***************************************************************************)
EXTENDS FiniteSets

CONSTANTS
  Threads,  \* the threads, and their nodes
  NoNode    \* the null pointer, no member of Threads

VARIABLES
  tail,     \* QueuedSpinlock.tail
  next,     \* QueuedSpinlockNode.next of each thread's node
  locked,   \* QueuedSpinlockNode.locked of each thread's node
  pc,       \* the atomic operation each thread does next
  prev,     \* the local variable `prev' of lock()
  ahead     \* history: who swapped tail before t did and is still in line

vars == <<tail, next, locked, pc, prev, ahead>>

InLine  == {t \in Threads : pc[t] # "idle"}

\* The lock is held from the return of lock() to the step of unlock() that
\* hands it on or clears the tail.
Holders == {t \in Threads : pc[t] \in {"held", "clear", "await", "pass"}}

Init ==
  /\ tail = NoNode
  /\ next = [t \in Threads |-> NoNode]
  /\ locked = [t \in Threads |-> FALSE]
  /\ pc = [t \in Threads |-> "idle"]
  /\ prev = [t \in Threads |-> NoNode]
  /\ ahead = [t \in Threads |-> {}]

Goto(t, from, to) == pc[t] = from /\ pc' = [pc EXCEPT ![t] = to]

\* Mutated form of SwapTail: the flag is left as the node's last use left it.
SwapTailUnset(t) ==
  /\ Goto(t, "idle", "test")
  /\ next' = [next EXCEPT ![t] = NoNode]
  /\ prev' = [prev EXCEPT ![t] = tail]
  /\ tail' = t
  /\ ahead' = [ahead EXCEPT ![t] = InLine]
  /\ UNCHANGED locked

\* lock(): the node is initialised and becomes the tail.
SwapTail(t) ==
  /\ Goto(t, "idle", "test")
  /\ next' = [next EXCEPT ![t] = NoNode]
  /\ locked' = [locked EXCEPT ![t] = TRUE]
  /\ prev' = [prev EXCEPT ![t] = tail]
  /\ tail' = t
  /\ ahead' = [ahead EXCEPT ![t] = InLine]

\* lock(): the queue was empty, the lock is taken.
TakeFree(t) ==
  /\ prev[t] = NoNode
  /\ Goto(t, "test", "held")
  /\ UNCHANGED <<tail, next, locked, prev, ahead>>

\* lock(): the node is linked behind its predecessor's.
Link(t) ==
  /\ prev[t] # NoNode
  /\ Goto(t, "test", "spin")
  /\ next' = [next EXCEPT ![prev[t]] = t]
  /\ UNCHANGED <<tail, locked, prev, ahead>>

\* lock(): the predecessor cleared our flag.
SeeUnlocked(t) ==
  /\ ~locked[t]
  /\ Goto(t, "spin", "held")
  /\ UNCHANGED <<tail, next, locked, prev, ahead>>

\* unlock(): is a successor linked?
LoadNext(t) ==
  /\ \/ next[t] = NoNode /\ Goto(t, "held", "clear")
     \/ next[t] # NoNode /\ Goto(t, "held", "pass")
  /\ UNCHANGED <<tail, next, locked, prev, ahead>>

\* The step of unlock() that leaves the line.
Leave(t) == ahead' = [u \in Threads |-> ahead[u] \ {t}]

\* Mutated form of ClearTail: the tail is cleared without comparing it.
ClearAnyTail(t) ==
  /\ Goto(t, "clear", "idle")
  /\ tail' = NoNode
  /\ Leave(t)
  /\ UNCHANGED <<next, locked, prev>>

\* Mutated form of ClearTail: a failed exchange ends unlock().
ClearTailAndForget(t) ==
  /\ Goto(t, "clear", "idle")
  /\ tail' = IF tail = t THEN NoNode ELSE tail
  /\ Leave(t)
  /\ UNCHANGED <<next, locked, prev>>

\* unlock(): no successor yet; compare_exchange(node, 0) on the tail.
ClearTail(t) ==
  \/ /\ tail = t
     /\ Goto(t, "clear", "idle")
     /\ tail' = NoNode
     /\ Leave(t)
     /\ UNCHANGED <<next, locked, prev>>
  \/ /\ tail # t
     /\ Goto(t, "clear", "await")
     /\ UNCHANGED <<tail, next, locked, prev, ahead>>

\* unlock(): the successor that swapped the tail has linked itself.
AwaitSuccessor(t) ==
  /\ next[t] # NoNode
  /\ Goto(t, "await", "pass")
  /\ UNCHANGED <<tail, next, locked, prev, ahead>>

\* unlock(): the successor's flag is cleared.
PassOn(t) ==
  /\ Goto(t, "pass", "idle")
  /\ locked' = [locked EXCEPT ![next[t]] = FALSE]
  /\ Leave(t)
  /\ UNCHANGED <<tail, next, prev>>

Lock(t)   == TakeFree(t) \/ Link(t) \/ SeeUnlocked(t)
Unlock(t) == LoadNext(t) \/ ClearTail(t) \/ AwaitSuccessor(t) \/ PassOn(t)

Next == \E t \in Threads : SwapTail(t) \/ Lock(t) \/ Unlock(t)

Spec == Init /\ [][Next]_vars

\* A thread inside lock() or unlock() keeps running, and callers unlock.
Fairness == \A t \in Threads : WF_vars(Lock(t)) /\ WF_vars(Unlock(t))

FairSpec == Spec /\ Fairness

-----------------------------------------------------------------------------
Waiting(t) == pc[t] \in {"test", "spin"} /\ ahead[t] # {}

(***************************************************************************)
(* The pointers describe the line: the tail is its last thread; a thread's *)
(* predecessor is the last of those ahead of it, until it is let in; only  *)
(* its predecessor's node points to it; and unlock() hands the lock to the *)
(* thread right behind, which is still waiting for its flag.               *)
(***************************************************************************)
QueueIsLinked ==
  /\ tail = NoNode <=> InLine = {}
  /\ tail # NoNode => tail \in InLine /\ ahead[tail] = InLine \ {tail}
  /\ \A t \in InLine : Waiting(t) =>
       /\ prev[t] \in InLine
       /\ ahead[t] = ahead[prev[t]] \cup {prev[t]}
  /\ \A t \in InLine : next[t] # NoNode =>
       pc[next[t]] = "spin" /\ prev[next[t]] = t
  /\ \A t \in Threads : pc[t] = "pass" =>
       next[t] \in Threads /\ locked[next[t]] /\ ahead[next[t]] = {t}

Fifo == INSTANCE FifoLock WITH inLine <- InLine, ahead <- ahead, holds <- Holders

\* The queue lock serves the threads in the order in which they swapped tail.
ServesInOrder == Fifo!Spec

\* Whoever swaps itself into the queue gets the lock, also when it links
\* itself after its predecessor has started to unlock.
EveryWaiterEnters == \A t \in Threads : pc[t] = "test" ~> pc[t] = "held"
===============================================================================
