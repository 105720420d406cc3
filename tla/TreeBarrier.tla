------------------------------ MODULE TreeBarrier -----------------------------
(***************************************************************************)
(* TreeBarrier of sync/barrier.rs: thread i waits for the children of node *)
(* i of a tree, reports to the parent node, and then spins on the sense of *)
(* the root, whose thread turns it round when everybody has reported.      *)
(***************************************************************************)
EXTENDS Integers, FiniteSets

CONSTANTS
  N,            \* the number of threads, named 0 .. N - 1
  Radix,        \* the children a node has at most
  MaxRounds     \* bound: how often each thread calls wait()

Ids == 0 .. N - 1

IsRoot(i) == i = 0

Parent(i) == (i - 1) \div Radix

Children(i) == Cardinality({j \in Ids : ~IsRoot(j) /\ Parent(j) = i})

VARIABLES
  arrived,      \* BarrierNode.arrived of each node
  sense,        \* BarrierNode.sense of the root; the others' is not used
  pc,           \* the operation each thread does next
  local_sense,  \* each caller's local sense
  waits,        \* history: how often each thread has called wait()
  returns       \* history: how often it has returned

vars == <<arrived, sense, pc, local_sense, waits, returns>>

Init ==
  /\ arrived = [i \in Ids |-> 0]
  /\ sense = 0
  /\ pc = [i \in Ids |-> "out"]
  /\ local_sense = [i \in Ids |-> 0]
  /\ waits = [i \in Ids |-> 0]
  /\ returns = [i \in Ids |-> 0]

Goto(i, from, to) == pc[i] = from /\ pc' = [pc EXCEPT ![i] = to]

\* wait(): the local sense is turned round.
Enter(i) ==
  /\ waits[i] < MaxRounds
  /\ Goto(i, "out", "children")
  /\ local_sense' = [local_sense EXCEPT ![i] = 1 - @]
  /\ waits' = [waits EXCEPT ![i] = @ + 1]
  /\ UNCHANGED <<arrived, sense, returns>>

\* Mutated form of SeeChildren: the first child to report is enough.
SeeChild(i) ==
  /\ arrived[i] > 0 \/ Children(i) = 0
  /\ Goto(i, "children", "reset")
  /\ UNCHANGED <<arrived, sense, local_sense, waits, returns>>

\* "Wait for children".
SeeChildren(i) ==
  /\ arrived[i] = Children(i)
  /\ Goto(i, "children", "reset")
  /\ UNCHANGED <<arrived, sense, local_sense, waits, returns>>

Reset(i) ==
  /\ Goto(i, "reset", "report")
  /\ arrived' = [arrived EXCEPT ![i] = 0]
  /\ UNCHANGED <<sense, local_sense, waits, returns>>

\* "Signal parent".
SignalParent(i) ==
  /\ ~IsRoot(i)
  /\ Goto(i, "report", "spin")
  /\ arrived' = [arrived EXCEPT ![Parent(i)] = @ + 1]
  /\ UNCHANGED <<sense, local_sense, waits, returns>>

\* "If root, broadcast".
Broadcast(i) ==
  /\ IsRoot(i)
  /\ Goto(i, "report", "out")
  /\ sense' = local_sense[i]
  /\ returns' = [returns EXCEPT ![i] = @ + 1]
  /\ UNCHANGED <<arrived, local_sense, waits>>

\* "Wait for broadcast".
SeeBroadcast(i) ==
  /\ sense = local_sense[i]
  /\ Goto(i, "spin", "out")
  /\ returns' = [returns EXCEPT ![i] = @ + 1]
  /\ UNCHANGED <<arrived, sense, local_sense, waits>>

Step(i) ==
  \/ SeeChildren(i) \/ Reset(i) \/ SignalParent(i) \/ Broadcast(i) \/ SeeBroadcast(i)

Next == \E i \in Ids : Enter(i) \/ Step(i)

Spec == Init /\ [][Next]_vars

-----------------------------------------------------------------------------
Meet == INSTANCE Rendezvous WITH Crew <- Ids

\* Nobody passes the tree barrier before everybody has arrived, though each
\* thread waits for its own children only.
NobodyPassesEarly == Meet!Spec
===============================================================================
