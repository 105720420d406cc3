------------------------------ MODULE BoundedQueue ----------------------------
(***************************************************************************)
(* What a ring buffer promises to those who share it: no more than         *)
(* Capacity items inside, and each is taken once, by one thread, in the    *)
(* order in which they were put in.                                        *)
(***************************************************************************)
EXTENDS Naturals, Sequences

CONSTANTS Threads, Items, Empty, Capacity

VARIABLES
  inside,      \* put in and not taken out, the oldest first
  taken        \* the item a thread has taken and not yet returned

queueVars == <<inside, taken>>

QueueInit == inside = << >> /\ taken = [t \in Threads |-> Empty]

Put ==
  /\ Len(inside) < Capacity
  /\ \E i \in Items : inside' = Append(inside, i)
  /\ UNCHANGED taken

Take(t) ==
  /\ inside # << >> /\ taken[t] = Empty
  /\ inside' = Tail(inside)
  /\ taken' = [taken EXCEPT ![t] = Head(inside)]

Return(t) ==
  /\ taken[t] # Empty
  /\ taken' = [taken EXCEPT ![t] = Empty]
  /\ UNCHANGED inside

QueueNext == Put \/ \E t \in Threads : Take(t) \/ Return(t)

QueueSpec == QueueInit /\ [][QueueNext]_queueVars

===============================================================================
